---- MODULE Spec2Model ----
(***************************************************************************)
(* A model of the N-back sequence generator (src/nback/sequences.py).      *)
(*                                                                         *)
(* One call of generate_sequence is a process with a program counter pc.   *)
(* Every random draw of the code (random.shuffle, random.random,           *)
(* random.choice) is a nondeterministic choice over the values the draw    *)
(* can produce.  Indices are the code's 0-based indices; PyGet reads a      *)
(* Python list at such an index.  Letters are the numbers 1..NumLetters.   *)
(* Rates are percentages (30 is 0.30); for the rates and lengths used the  *)
(* product rate * n_trials is exact in binary floating point, so PyRound   *)
(* on the exact quotient is Python's round() on the float.                 *)
(***************************************************************************)
EXTENDS Integers, Sequences, FiniteSets

\* ------------------------------------------------------------------ bounds
\* n_trials ranges over 0..MaxTrials.
MaxTrials == 4
\* The alphabet has 23 letters in the code.  The candidate lists of the code
\* exclude at most two letters (the N-back letter and the last letter), so
\* with 3 letters or more no candidate list is ever empty, as in the code.
NumLetters == 3

\* ------------------------------------------------------- program constants
TARGET_RATE == 30
LURE_N_MINUS_1_RATE == 5
LURE_N_PLUS_1_RATE == 5
MAX_IDENTICAL_RUN == 2
MAX_CONSEC_TARGETS_DEFAULT == 1
DEFAULT_FIXED_ITI_MS == 500
SAMPLE_ATTEMPTS == 200
FALLBACK_PASSES == 50
STIM_DUR_MS == 500
SOA_MS_DEFAULT == 2500
PRACTICE_N_BACK == 2
PRACTICE_TARGET_RATE == 40
PRACTICE_PASS_ACC == 75
PREVIEW_N_BACK == 2
PREVIEW_TRIALS == 10
BLOCKS_PER_LOAD_DEFAULT == 3

KEY_PROCEED == "return"

KEY_RESPONSE == "space"

KEY_QUIT == "escape"

LETTERS == 1..NumLetters

\* ---------------------------------------------- the configurations explored
NBackValues == {1, 2, 3}
NTrialsValues == 0..MaxTrials
TargetRateValues == {TARGET_RATE, 50, 75}
MaxConsecValues == {MAX_CONSEC_TARGETS_DEFAULT, 2}
MaxIdenticalRunValues == {1, MAX_IDENTICAL_RUN}
MaxAttemptsValues == {0, 1, 2}

\* every combination of the argument values
Arguments ==
    [n_back : NBackValues,
     n_trials : NTrialsValues,
     target_rate : TargetRateValues,
     lure_n_minus_1_rate : {LURE_N_MINUS_1_RATE},
     lure_n_plus_1_rate : {LURE_N_PLUS_1_RATE},
     max_consec_targets : MaxConsecValues,
     max_identical_run : MaxIdenticalRunValues,
     fixed_iti_ms : {DEFAULT_FIXED_ITI_MS},
     max_attempts : MaxAttemptsValues,
     soft_balance_initial : {TRUE},
     include_lures : BOOLEAN]

\* a call that keeps every default but n_back, n_trials and max_attempts
IsDefaultCall(c) ==
    /\ c.target_rate = TARGET_RATE
    /\ c.max_consec_targets = MAX_CONSEC_TARGETS_DEFAULT
    /\ c.max_identical_run = MAX_IDENTICAL_RUN
    /\ c.include_lures

\* the calls explored: up to one primary attempt for every combination, up
\* to two for the calls with default arguments
Configs == {c \in Arguments : c.max_attempts < 2 \/ IsDefaultCall(c)}

VARIABLES
    cfg,              \* the arguments of the call
    pc,               \* position in generate_sequence
    attempt,          \* _attempt: number of the primary attempt in progress
    sample_try,       \* shuffles made so far by _sample_target_indices
    target_indices,   \* the sorted list _sample_target_indices returned
    i,                \* index of the next trial to fill
    seq,              \* letters so far
    is_target_flags,  \* primary path: flag per filled trial
    lure_types,       \* lure type per filled trial
    freqs,            \* letter -> count in seq (primary path)
    target_flags,     \* fallback: flag per trial
    attempts,         \* fallback: passes of the placement loop
    plans,            \* the returned list of TrialPlan
    path,             \* "none" | "primary" | "fallback": what built plans
    raised,           \* an exception left generate_sequence
    tolerance_arg,    \* validate_sequence: the tolerance argument
    verdict           \* validate_sequence: the pair (ok, reason) returned, <<>> before

\* the state of one call of generate_sequence
gen_vars == <<cfg, pc, attempt, sample_try, target_indices, i, seq, is_target_flags,
              lure_types, freqs, target_flags, attempts, plans, path, raised,
              tolerance_arg, verdict>>

\* ---- the session (src/nback_task.py): main's configuration and one run_block
VARIABLES
    soa_arg,             \* args.soa_ms
    hw_kb,               \* CFG_USE_HW_KB and _HAVE_HW_KB and kb is not None
    is_practice,         \* the block is a practice block (rows_out is None)
    b_pc,                \* position in run_block
    t_idx,               \* number of the trial in progress (from 1)
    now_ms,              \* the last reading of resp_clock, in ms
    keybuf,              \* key presses not yet removed from the key buffer
    presses,             \* key presses made so far
    got_response,
    resp_key,            \* "" stands for None
    rt_ms,               \* <<>> stands for None, <<t>> for the value t
    fixation_mark_sent,
    shown,               \* what the last flip put on the screen
    sent,                \* the events requested of send_named, with the clock
    correct_count,
    accs_out,
    rts_out,
    rows_out,
    block_ret,           \* what run_block returned
    ABORT_WITHOUT_SAVE,
    raised_sites         \* the events whose send_named call raised in the last step

block_vars == <<soa_arg, hw_kb, is_practice, b_pc, t_idx, now_ms, keybuf, presses,
                got_response, resp_key, rt_ms, fixation_mark_sent, shown, sent,
                correct_count, accs_out, rts_out, rows_out, block_ret,
                ABORT_WITHOUT_SAVE, raised_sites>>

\* ---- the session (src/nback_task.py): main around its blocks, and the files
VARIABLES
    m_pc,                \* position in main
    version,             \* args.version
    blocks_arg,          \* args.blocks_per_load
    trials_per_block,
    no_practice,         \* args.no_practice
    phase_idx,           \* 1 or 2 inside the loop over load_order, 0 before it
    within_phase_b,
    block_counter,
    f_open,              \* main's handle f on the CSV file is open
    csv_exists,          \* the file at CSV_PATH exists
    csv_rows,            \* the rows written to it after the header
    meta_exists,         \* the file at META_PATH exists
    block_log            \* block_idx and n_back of the calls of run_block by main

main_vars == <<m_pc, version, blocks_arg, trials_per_block, no_practice, phase_idx,
               within_phase_b, block_counter, f_open, csv_exists, csv_rows,
               meta_exists, block_log>>

vars == <<gen_vars, block_vars, main_vars>>

\* ----------------------------------------------------------------- helpers
\* Python list indexing: s[k] for -len <= k < len, IndexError otherwise.
PyIndexOK(s, k) == k < Len(s) /\ k >= -Len(s)

PyGet(s, k) == IF k >= 0 THEN s[k + 1] ELSE s[Len(s) + k + 1]

\* Python 3 round() of num/den (den > 0): ties go to the even integer.
PyRound(num, den) ==
    LET q == num \div den
        r == num % den
    IN  IF 2 * r < den THEN q
        ELSE IF 2 * r > den THEN q + 1
        ELSE IF q % 2 = 0 THEN q ELSE q + 1

RECURSIVE SumSeq(_)
SumSeq(s) == IF s = <<>> THEN 0 ELSE Head(s) + SumSeq(Tail(s))

RECURSIVE Shuffles(_)
\* random.shuffle: every order of the elements of S
Shuffles(S) ==
    IF S = {} THEN {<<>>}
    ELSE UNION {{<<x>> \o p : p \in Shuffles(S \ {x})} : x \in S}

RECURSIVE Sorted(_)
\* sorted(): the elements of a set of integers in increasing order
Sorted(S) ==
    IF S = {} THEN <<>>
    ELSE LET m == CHOOSE x \in S : \A y \in S : x <= y
         IN  <<m>> \o Sorted(S \ {m})

SeqToSet(s) == {s[k] : k \in 1..Len(s)}

\* random.random() < rate, rate in percent
Draw(rate) ==
    IF rate <= 0 THEN {FALSE} ELSE IF rate >= 100 THEN {TRUE} ELSE BOOLEAN

\* desired_targets rounding the rate before the multiplication
Mut_desired_targets(c) == PyRound(c.target_rate, 100) * c.n_trials

desired_targets(c) == PyRound(c.target_rate * c.n_trials, 100)

ZeroFreqs == [c \in LETTERS |-> 0]

\* ------------------------------------------------------------ _choose_letter
MaxFreq(freq) == CHOOSE m \in {freq[c] : c \in DOMAIN freq} :
                     \A c \in DOMAIN freq : freq[c] <= m

\* the weight of candidate c under soft balancing
Weight(c, freq) ==
    LET max_count == IF DOMAIN freq = {} THEN 1 ELSE MaxFreq(freq)
        w == max_count - freq[c] + 1
    IN  IF w > 1 THEN w ELSE 1

\* The letters _choose_letter can return: a candidate is drawn with
\* probability proportional to its weight (soft balance) or uniformly.
_choose_letter(candidates, freq, soft_balance) ==
    LET cands == IF candidates = {} THEN LETTERS ELSE candidates
    IN  IF soft_balance THEN {c \in cands : Weight(c, freq) > 0} ELSE cands

\* ---------------------------------------------------------- _valid_run_limit
RECURSIVE TrailingRun(_, _)
\* how many trailing elements of s equal candidate
TrailingRun(s, candidate) ==
    IF s = <<>> \/ s[Len(s)] # candidate THEN 0
    ELSE 1 + TrailingRun(SubSeq(s, 1, Len(s) - 1), candidate)

_valid_run_limit(s, candidate, max_run) ==
    IF max_run <= 0 THEN TRUE
    ELSE 1 + TrailingRun(s, candidate) <= max_run

\* --------------------------------------------------------- validate_sequence
\* LureReason accepting a lure that equals the N-back letter
Mut_LureReason(s, flags, lts, n_back, k) ==
    IF PyGet(lts, k) = "n-1" THEN
        IF ~(k >= n_back - 1 /\ (n_back - 1) > 0) THEN "n-1 lure too early"
        ELSE IF PyGet(flags, k) = 1 THEN "lure double-counted as target"
        ELSE IF PyGet(s, k) # PyGet(s, k - (n_back - 1)) THEN "n-1 lure mismatch"
        ELSE "ok"
    ELSE IF PyGet(lts, k) = "n+1" THEN
        IF ~(k >= n_back + 1) THEN "n+1 lure too early"
        ELSE IF PyGet(flags, k) = 1 THEN "lure double-counted as target"
        ELSE IF PyGet(s, k) # PyGet(s, k - (n_back + 1)) THEN "n+1 lure mismatch"
        ELSE "ok"
    ELSE "ok"

\* the verdict of rules 4 and 5 on the trial at index k
LureReason(s, flags, lts, n_back, k) ==
    IF PyGet(lts, k) = "n-1" THEN
        IF ~(k >= n_back - 1 /\ (n_back - 1) > 0) THEN "n-1 lure too early"
        ELSE IF PyGet(flags, k) = 1 THEN "lure double-counted as target"
        ELSE IF PyGet(s, k) # PyGet(s, k - (n_back - 1)) THEN "n-1 lure mismatch"
        ELSE IF k >= n_back /\ PyGet(s, k) = PyGet(s, k - n_back)
             THEN "n-1 lure equals target"
        ELSE "ok"
    ELSE IF PyGet(lts, k) = "n+1" THEN
        IF ~(k >= n_back + 1) THEN "n+1 lure too early"
        ELSE IF PyGet(flags, k) = 1 THEN "lure double-counted as target"
        ELSE IF PyGet(s, k) # PyGet(s, k - (n_back + 1)) THEN "n+1 lure mismatch"
        ELSE IF k >= n_back /\ PyGet(s, k) = PyGet(s, k - n_back)
             THEN "n+1 lure equals target"
        ELSE "ok"
    ELSE "ok"

RECURSIVE MaxTargetRunFrom(_, _, _, _)
\* the largest value the counter consec takes from position k (1-based) on
MaxTargetRunFrom(flags, k, consec, best) ==
    IF k > Len(flags) THEN best
    ELSE IF flags[k] = 1
         THEN MaxTargetRunFrom(flags, k + 1, consec + 1,
                               IF consec + 1 > best THEN consec + 1 ELSE best)
         ELSE MaxTargetRunFrom(flags, k + 1, 0, best)

MaxTargetRun(flags) == MaxTargetRunFrom(flags, 1, 0, 0)

Min(a, b) == IF a < b THEN a ELSE b

Max(a, b) == IF a > b THEN a ELSE b

\* validate_sequence without the check of consecutive targets
Mut_validate_sequence(s, flags, lts, n_back, target_rate, tolerance, max_consec_targets) ==
    LET n_trials == Len(s)
        desired == PyRound(target_rate * n_trials, 100)
        total_targets == SumSeq(flags)
        bad_lures == {k \in 0..(n_trials - 1) :
                         LureReason(s, flags, lts, n_back, k) # "ok"}
    IN  IF \E k \in 0..(Min(n_back, n_trials) - 1) : PyGet(flags, k) = 1
            THEN "Target in first N trials"
        ELSE IF ~(desired - 1 <= total_targets /\ total_targets <= desired + 1)
            THEN "Target count outside +-1"
        ELSE IF n_back > 1 /\ \E k \in 1..(n_trials - 1) :
                    /\ PyGet(s, k) = PyGet(s, k - 1)
                    /\ PyGet(flags, k) = 0
                    /\ PyGet(lts, k) = "none"
            THEN "Immediate repeat without target/lure"
        ELSE IF bad_lures # {}
            THEN LureReason(s, flags, lts, n_back,
                            CHOOSE k \in bad_lures : \A m \in bad_lures : k <= m)
        ELSE "ok"

\* validate_sequence: the reason returned; ok is (reason = "ok")
validate_sequence(s, flags, lts, n_back, target_rate, tolerance, max_consec_targets) ==
    LET n_trials == Len(s)
        desired == PyRound(target_rate * n_trials, 100)
        total_targets == SumSeq(flags)
        bad_lures == {k \in 0..(n_trials - 1) :
                         LureReason(s, flags, lts, n_back, k) # "ok"}
    IN  IF \E k \in 0..(Min(n_back, n_trials) - 1) : PyGet(flags, k) = 1
            THEN "Target in first N trials"
        ELSE IF ~(desired - 1 <= total_targets /\ total_targets <= desired + 1)
            THEN "Target count outside +-1"
        ELSE IF n_back > 1 /\ \E k \in 1..(n_trials - 1) :
                    /\ PyGet(s, k) = PyGet(s, k - 1)
                    /\ PyGet(flags, k) = 0
                    /\ PyGet(lts, k) = "none"
            THEN "Immediate repeat without target/lure"
        ELSE IF bad_lures # {}
            THEN LureReason(s, flags, lts, n_back,
                            CHOOSE k \in bad_lures : \A m \in bad_lures : k <= m)
        ELSE IF MaxTargetRun(flags) > max_consec_targets
            THEN "too many consecutive targets"
        ELSE "ok"

\* ---------------------------------------------------- _sample_target_indices
RECURSIVE ChainRun(_, _, _)
\* the while loop of lines 153-157: 1 + the number of j = len-1, len-2, ...
\* with chosen[j] = k - (len(chosen) - j), stopping at the first mismatch
ChainRun(chosen, k, j) ==
    IF j >= 0 /\ PyGet(chosen, j) = k - (Len(chosen) - j)
    THEN 1 + ChainRun(chosen, k, j - 1)
    ELSE 1

\* SampleSkips with the rule of the docstring, "avoid selecting i if
\* (i - n_back) is already a target"
Mut_SampleSkips(chosen, k, max_consec_targets) ==
    \/ /\ max_consec_targets > 0
       /\ \/ max_consec_targets = 1 /\ chosen # <<>> /\ k - PyGet(chosen, -1) = 1
          \/ chosen # <<>> /\ ChainRun(chosen, k, Len(chosen) - 1) > max_consec_targets
    \/ (k - cfg.n_back) \in {chosen[j] : j \in 1..Len(chosen)}

\* whether the loop body `continue`s at position k
SampleSkips(chosen, k, max_consec_targets) ==
    /\ max_consec_targets > 0
    /\ \/ max_consec_targets = 1 /\ chosen # <<>> /\ k - PyGet(chosen, -1) = 1
       \/ chosen # <<>> /\ ChainRun(chosen, k, Len(chosen) - 1) > max_consec_targets

RECURSIVE SampleChoose(_, _, _, _, _)
\* the inner for loop over the shuffled positions, from position p (1-based)
SampleChoose(positions, p, chosen, desired, max_consec_targets) ==
    IF p > Len(positions) \/ Len(chosen) >= desired THEN chosen
    ELSE IF SampleSkips(chosen, positions[p], max_consec_targets)
         THEN SampleChoose(positions, p + 1, chosen, desired, max_consec_targets)
         ELSE SampleChoose(positions, p + 1, Append(chosen, positions[p]),
                           desired, max_consec_targets)

\* range(n_back, n_trials)
SamplePositions(n_back, n_trials) == n_back..(n_trials - 1)

\* ------------------------------------------- generate_sequence: primary fill
\* what one pass of the loop body appends; err: the body raised IndexError
Raise == [err |-> TRUE, letter |-> 0, is_target |-> 0, lure_type |-> "none"]

Outcome(l, t, lt) == [err |-> FALSE, letter |-> l, is_target |-> t, lure_type |-> lt]

\* NMinus1Eligible without the test n_back - 1 > 0
Mut_NMinus1Eligible(n_back, k) == k >= (n_back - 1)

\* the guards in front of the two lure draws
NMinus1Eligible(n_back, k) == (n_back - 1) > 0 /\ k >= (n_back - 1)

NPlus1Eligible(n_back, k) == k >= (n_back + 1)

\* a lure copying s[src] is kept: it differs from the N-back letter (when
\* there is one) and stays within the identical-run cap
LureAccepted(c, s, k, src) ==
    LET lure_letter == PyGet(s, src)
    IN  /\ (k < c.n_back \/ lure_letter # PyGet(s, k - c.n_back))
        /\ _valid_run_limit(s, lure_letter, c.max_identical_run)

\* dropping the last letter when repeating it would pass the cap less one
DropLast(cands, s, max_identical_run) ==
    IF /\ s # <<>>
       /\ PyGet(s, -1) \in cands
       /\ ~_valid_run_limit(s, PyGet(s, -1), max_identical_run - 1)
    THEN cands \ {PyGet(s, -1)}
    ELSE cands

\* FillerCandidates without the exclusion of the N-back letter
Mut_FillerCandidates(c, s, k) == DropLast(LETTERS, s, c.max_identical_run)

\* candidates of a plain filler
FillerCandidates(c, s, k) ==
    LET c1 == IF k >= c.n_back THEN LETTERS \ {PyGet(s, k - c.n_back)} ELSE LETTERS
    IN  DropLast(c1, s, c.max_identical_run)

\* candidates of the final run-limit re-selection
FinalCandidates(c, s, k) ==
    LET c0 == {x \in LETTERS : _valid_run_limit(s, x, c.max_identical_run)}
        c1 == IF k >= c.n_back THEN c0 \ {PyGet(s, k - c.n_back)} ELSE c0
    IN  DropLast(c1, s, c.max_identical_run)

\* FinalAdjust appending the planned letter unchecked
Mut_FinalAdjust(c, s, fr, k, o) == {o}

\* the final run-limit check adjustment applied to a chosen outcome o
FinalAdjust(c, s, fr, k, o) ==
    IF o.err \/ _valid_run_limit(s, o.letter, c.max_identical_run) THEN {o}
    ELSE {[o EXCEPT !.letter = l] :
              l \in _choose_letter(FinalCandidates(c, s, k), fr, c.soft_balance_initial)}

\* the target branch: the letter n_back positions back, flagged as target
TargetOutcome(c, s, k) ==
    IF PyIndexOK(s, k - c.n_back)
    THEN Outcome(PyGet(s, k - c.n_back), 1, "none")
    ELSE Raise

\* the non-target branch for draws d1 (n-1 lure) and d2 (n+1 lure)
NonTargetOutcomes(c, s, fr, k, d1, d2) ==
    LET try1 == c.include_lures /\ NMinus1Eligible(c.n_back, k) /\ d1
        src1 == k - (c.n_back - 1)
        err1 == try1 /\ ~PyIndexOK(s, src1)
        acc1 == try1 /\ ~err1 /\ LureAccepted(c, s, k, src1)
        try2 == c.include_lures /\ ~acc1 /\ NPlus1Eligible(c.n_back, k) /\ d2
        src2 == k - (c.n_back + 1)
        err2 == try2 /\ ~PyIndexOK(s, src2)
        acc2 == try2 /\ ~err2 /\ LureAccepted(c, s, k, src2)
    IN  IF err1 \/ err2 THEN {Raise}
        ELSE IF acc1 THEN {Outcome(PyGet(s, src1), 0, "n-1")}
        ELSE IF acc2 THEN {Outcome(PyGet(s, src2), 0, "n+1")}
        ELSE {Outcome(l, 0, "none") :
                  l \in _choose_letter(FillerCandidates(c, s, k), fr,
                                       c.soft_balance_initial)}

\* IsTargetTrial missing a sampled index equal to n_back
Mut_IsTargetTrial(c, ts, k) == k \in ts /\ k > c.n_back

\* whether trial k takes the target branch
IsTargetTrial(c, ts, k) == k \in ts /\ k >= c.n_back

\* everything the loop body can append for trial k
TrialOutcomes(c, ts, s, fr, k) ==
    LET first == IF IsTargetTrial(c, ts, k)
                 THEN {TargetOutcome(c, s, k)}
                 ELSE UNION {NonTargetOutcomes(c, s, fr, k, d1, d2) :
                                 d1 \in Draw(c.lure_n_minus_1_rate),
                                 d2 \in Draw(c.lure_n_plus_1_rate)}
    IN  UNION {FinalAdjust(c, s, fr, k, o) : o \in first}

TrialPlan(stimulus, is_target, lure_type, iti_ms) ==
    [stimulus |-> stimulus, is_target |-> is_target,
     lure_type |-> lure_type, iti_ms |-> iti_ms]

\* ------------------------------------------------ generate_sequence: fallback
\* FallbackCandidates starting at index 0: range(0, n_trials)
Mut_FallbackCandidates(n_back, n_trials) == 0..(n_trials - 1)

\* range(n_back, n_trials)
FallbackCandidates(n_back, n_trials) == n_back..(n_trials - 1)

\* left_run + right_run of index k
Neighbours(flags, k, n_trials) ==
    (IF (k - 1) >= 0 /\ PyGet(flags, k - 1) = 1 THEN 1 ELSE 0)
    + (IF (k + 1) < n_trials /\ PyGet(flags, k + 1) = 1 THEN 1 ELSE 0)

\* the placement loop `continue`s at index k
FallbackBlocked(flags, k, max_consec_targets, n_trials) ==
    \/ max_consec_targets <= 0
    \/ Neighbours(flags, k, n_trials) >= max_consec_targets

RECURSIVE FallbackScan(_, _, _, _, _)
\* one pass of the inner for loop over the shuffled candidates
FallbackScan(order, p, flags, desired, max_consec_targets) ==
    IF p > Len(order) \/ SumSeq(flags) >= desired THEN flags
    ELSE IF FallbackBlocked(flags, order[p], max_consec_targets, Len(flags))
         THEN FallbackScan(order, p + 1, flags, desired, max_consec_targets)
         ELSE FallbackScan(order, p + 1, [flags EXCEPT ![order[p] + 1] = 1],
                           desired, max_consec_targets)

\* FallbackLoopCond without the bound on the number of passes
Mut_FallbackLoopCond(flags, desired, passes) == SumSeq(flags) < desired

\* the condition of the placement while loop
FallbackLoopCond(flags, desired, passes) ==
    SumSeq(flags) < desired /\ passes < FALLBACK_PASSES

RECURSIVE FinalScan(_, _, _, _)
\* the final pass over the shuffled pool: only indices with no target neighbour
FinalScan(pool, p, flags, needed) ==
    IF p > Len(pool) \/ needed <= 0 THEN flags
    ELSE IF Neighbours(flags, pool[p], Len(flags)) = 0
         THEN FinalScan(pool, p + 1, [flags EXCEPT ![pool[p] + 1] = 1], needed - 1)
         ELSE FinalScan(pool, p + 1, flags, needed)

\* whether the final pass runs at all
FinalPassNeeded(flags, desired) ==
    SumSeq(flags) < Max(0, desired - 1) /\ desired - SumSeq(flags) > 0

\* FallbackLetters without the exclusion of the preceding letter
Mut_FallbackLetters(c, flags, s, k) ==
    IF PyGet(flags, k) = 1 /\ k >= c.n_back
    THEN {PyGet(s, k - c.n_back)}
    ELSE LET c1 == IF k >= c.n_back THEN LETTERS \ {PyGet(s, k - c.n_back)}
                   ELSE LETTERS
         IN  IF c1 # {} THEN c1 ELSE {1}

\* the letters the fallback can put at trial k
FallbackLetters(c, flags, s, k) ==
    IF PyGet(flags, k) = 1 /\ k >= c.n_back
    THEN {PyGet(s, k - c.n_back)}
    ELSE LET c1 == IF k >= c.n_back THEN LETTERS \ {PyGet(s, k - c.n_back)}
                   ELSE LETTERS
             c2 == IF k >= 1 THEN c1 \ {PyGet(s, k - 1)} ELSE c1
         IN  IF c2 # {} THEN c2 ELSE {1}

\* ------------------------------------------------------------------- actions
target_set == SeqToSet(target_indices)

\* no block is running
BlockIdle ==
    /\ hw_kb = FALSE
    /\ is_practice = FALSE
    /\ b_pc = "idle"
    /\ t_idx = 0
    /\ now_ms = 0
    /\ keybuf = <<>>
    /\ presses = 0
    /\ got_response = FALSE
    /\ resp_key = ""
    /\ rt_ms = <<>>
    /\ fixation_mark_sent = FALSE
    /\ shown = "none"
    /\ sent = <<>>
    /\ correct_count = 0
    /\ accs_out = <<>>
    /\ rts_out = <<>>
    /\ rows_out = <<>>
    /\ block_ret = <<>>
    /\ ABORT_WITHOUT_SAVE = FALSE
    /\ raised_sites = {}

\* main is not running: no session file exists
MainIdle ==
    /\ m_pc = "idle"
    /\ version = "A"
    /\ blocks_arg = BLOCKS_PER_LOAD_DEFAULT
    /\ trials_per_block = 0
    /\ no_practice = FALSE
    /\ phase_idx = 0
    /\ within_phase_b = 0
    /\ block_counter = 0
    /\ f_open = FALSE
    /\ csv_exists = FALSE
    /\ csv_rows = <<>>
    /\ meta_exists = FALSE
    /\ block_log = <<>>

\* the locals of generate_sequence on entry
GenStart ==
    /\ pc = "loop"
    /\ attempt = 0
    /\ sample_try = 0
    /\ target_indices = <<>>
    /\ i = 0
    /\ seq = <<>>
    /\ is_target_flags = <<>>
    /\ lure_types = <<>>
    /\ freqs = ZeroFreqs
    /\ target_flags = <<>>
    /\ attempts = 0
    /\ plans = <<>>
    /\ path = "none"
    /\ raised = FALSE
    /\ tolerance_arg = 1
    /\ verdict = <<>>

Init ==
    /\ soa_arg = SOA_MS_DEFAULT
    /\ BlockIdle
    /\ MainIdle
    /\ cfg \in Configs
    /\ pc = "loop"
    /\ attempt = 0
    /\ sample_try = 0
    /\ target_indices = <<>>
    /\ i = 0
    /\ seq = <<>>
    /\ is_target_flags = <<>>
    /\ lure_types = <<>>
    /\ freqs = ZeroFreqs
    /\ target_flags = <<>>
    /\ attempts = 0
    /\ plans = <<>>
    /\ path = "none"
    /\ raised = FALSE
    /\ tolerance_arg = 1
    /\ verdict = <<>>

\* for _attempt in range(1, max_attempts + 1): fresh locals, then the call of
\* _sample_target_indices
AttemptStart ==
    /\ UNCHANGED <<block_vars, main_vars>>
    /\ pc = "loop"
    /\ attempt < cfg.max_attempts
    /\ attempt' = attempt + 1
    /\ seq' = <<>>
    /\ is_target_flags' = <<>>
    /\ lure_types' = <<>>
    /\ freqs' = ZeroFreqs
    /\ target_indices' = <<>>
    /\ sample_try' = 0
    /\ i' = 0
    /\ pc' = "sample"
    /\ UNCHANGED <<cfg, target_flags, attempts, plans, path, raised,
                   tolerance_arg, verdict>>

\* _sample_target_indices: desired <= 0 returns []
SampleReturnEmpty ==
    /\ UNCHANGED <<block_vars, main_vars>>
    /\ pc = "sample"
    /\ desired_targets(cfg) <= 0
    /\ target_indices' = <<>>
    /\ pc' = "fill"
    /\ UNCHANGED <<cfg, attempt, sample_try, i, seq, is_target_flags, lure_types,
                   freqs, target_flags, attempts, plans, path, raised,
                   tolerance_arg, verdict>>

\* _sample_target_indices: one shuffle and one greedy scan; a scan that
\* reaches the desired count returns the sorted indices
SampleShuffle ==
    /\ UNCHANGED <<block_vars, main_vars>>
    /\ pc = "sample"
    /\ desired_targets(cfg) > 0
    /\ sample_try < SAMPLE_ATTEMPTS
    /\ \E positions \in Shuffles(SamplePositions(cfg.n_back, cfg.n_trials)) :
         LET chosen == SampleChoose(positions, 1, <<>>, desired_targets(cfg),
                                    cfg.max_consec_targets)
         IN  IF Len(chosen) = desired_targets(cfg)
             THEN /\ target_indices' = Sorted(SeqToSet(chosen))
                  /\ sample_try' = sample_try + 1
                  /\ pc' = "fill"
             ELSE /\ target_indices' = <<>>
                  /\ sample_try' = sample_try + 1
                  /\ pc' = "sample"
    /\ UNCHANGED <<cfg, attempt, i, seq, is_target_flags, lure_types, freqs,
                   target_flags, attempts, plans, path, raised,
                   tolerance_arg, verdict>>

\* _sample_target_indices ran out of shuffles: return None, and the caller
\* continues with the next attempt
SampleGiveUp ==
    /\ UNCHANGED <<block_vars, main_vars>>
    /\ pc = "sample"
    /\ desired_targets(cfg) > 0
    /\ sample_try >= SAMPLE_ATTEMPTS
    /\ pc' = "loop"
    /\ UNCHANGED <<cfg, attempt, sample_try, target_indices, i, seq, is_target_flags,
                   lure_types, freqs, target_flags, attempts, plans, path, raised,
                   tolerance_arg, verdict>>

\* one pass of `for i in range(n_trials)` of a primary attempt
FillTrial ==
    /\ UNCHANGED <<block_vars, main_vars>>
    /\ pc = "fill"
    /\ i < cfg.n_trials
    /\ \E o \in TrialOutcomes(cfg, target_set, seq, freqs, i) :
         IF o.err
         THEN /\ raised' = TRUE
              /\ pc' = "raised"
              /\ UNCHANGED <<i, seq, is_target_flags, lure_types, freqs>>
         ELSE /\ seq' = Append(seq, o.letter)
              /\ is_target_flags' = Append(is_target_flags, o.is_target)
              /\ lure_types' = Append(lure_types, o.lure_type)
              /\ freqs' = [freqs EXCEPT ![o.letter] = @ + 1]
              /\ i' = i + 1
              /\ UNCHANGED <<pc, raised>>
    /\ UNCHANGED <<cfg, attempt, sample_try, target_indices, target_flags, attempts,
                   plans, path, tolerance_arg, verdict>>

\* PrimaryPlans reading lure_types one index early: lure_types[i - 1]
Mut_PrimaryPlans_ShiftLure(c, s, flags, lts) ==
    [k \in 1..c.n_trials |->
        TrialPlan(s[k], flags[k], PyGet(lts, k - 2), c.fixed_iti_ms)]

\* PrimaryPlans reading seq one index early: seq[i - 1]
Mut_PrimaryPlans_ShiftStimulus(c, s, flags, lts) ==
    [k \in 1..c.n_trials |->
        TrialPlan(PyGet(s, k - 2), flags[k], lts[k], c.fixed_iti_ms)]

\* PrimaryPlans reading is_target_flags one index early: is_target_flags[i - 1]
Mut_PrimaryPlans_ShiftFlag(c, s, flags, lts) ==
    [k \in 1..c.n_trials |->
        TrialPlan(s[k], PyGet(flags, k - 2), lts[k], c.fixed_iti_ms)]

\* the plans packaged from a validated attempt
PrimaryPlans(c, s, flags, lts) ==
    [k \in 1..c.n_trials |-> TrialPlan(s[k], flags[k], lts[k], c.fixed_iti_ms)]

\* validate_sequence on the filled attempt: return its plans, or continue
Validate ==
    /\ UNCHANGED <<block_vars, main_vars>>
    /\ pc = "fill"
    /\ i >= cfg.n_trials
    /\ IF validate_sequence(seq, is_target_flags, lure_types, cfg.n_back,
                            cfg.target_rate, 1, cfg.max_consec_targets) = "ok"
       THEN /\ plans' = PrimaryPlans(cfg, seq, is_target_flags, lure_types)
            /\ path' = "primary"
            /\ pc' = "done"
       ELSE /\ pc' = "loop"
            /\ UNCHANGED <<plans, path>>
    /\ UNCHANGED <<cfg, attempt, sample_try, target_indices, i, seq, is_target_flags,
                   lure_types, freqs, target_flags, attempts, raised,
                   tolerance_arg, verdict>>

\* EnterFallback leaving the primary loop one attempt early
Mut_EnterFallback ==
    /\ UNCHANGED <<block_vars, main_vars>>
    /\ pc = "loop"
    /\ attempt >= cfg.max_attempts - 1
    /\ target_flags' = [k \in 1..cfg.n_trials |-> 0]
    /\ attempts' = 0
    /\ seq' = <<>>
    /\ is_target_flags' = <<>>
    /\ lure_types' = <<>>
    /\ freqs' = ZeroFreqs
    /\ target_indices' = <<>>
    /\ sample_try' = 0
    /\ i' = 0
    /\ pc' = "fb_place"
    /\ UNCHANGED <<cfg, attempt, plans, path, raised,
                   tolerance_arg, verdict>>

\* the primary loop is exhausted: set up the fallback.  The locals of the
\* last attempt are dead from here on (seq and lure_types are rebound before
\* their next read), so they are cleared.
EnterFallback ==
    /\ UNCHANGED <<block_vars, main_vars>>
    /\ pc = "loop"
    /\ attempt >= cfg.max_attempts
    /\ target_flags' = [k \in 1..cfg.n_trials |-> 0]
    /\ attempts' = 0
    /\ seq' = <<>>
    /\ is_target_flags' = <<>>
    /\ lure_types' = <<>>
    /\ freqs' = ZeroFreqs
    /\ target_indices' = <<>>
    /\ sample_try' = 0
    /\ i' = 0
    /\ pc' = "fb_place"
    /\ UNCHANGED <<cfg, attempt, plans, path, raised,
                   tolerance_arg, verdict>>

\* one pass of the fallback's placement while loop
FallbackPass ==
    /\ UNCHANGED <<block_vars, main_vars>>
    /\ pc = "fb_place"
    /\ FallbackLoopCond(target_flags, desired_targets(cfg), attempts)
    /\ attempts' = attempts + 1
    /\ \E order \in Shuffles(FallbackCandidates(cfg.n_back, cfg.n_trials)) :
         target_flags' = FallbackScan(order, 1, target_flags, desired_targets(cfg),
                                      cfg.max_consec_targets)
    /\ UNCHANGED <<cfg, pc, attempt, sample_try, target_indices, i, seq,
                   is_target_flags, lure_types, freqs, plans, path, raised,
                   tolerance_arg, verdict>>

\* the placement loop has ended: the optional final pass over the pool
FallbackFinalPass ==
    /\ UNCHANGED <<block_vars, main_vars>>
    /\ pc = "fb_place"
    /\ ~FallbackLoopCond(target_flags, desired_targets(cfg), attempts)
    /\ IF FinalPassNeeded(target_flags, desired_targets(cfg))
       THEN \E pool \in Shuffles({k \in FallbackCandidates(cfg.n_back, cfg.n_trials) :
                                      PyGet(target_flags, k) = 0}) :
                target_flags' = FinalScan(pool, 1, target_flags,
                                          desired_targets(cfg) - SumSeq(target_flags))
       ELSE target_flags' = target_flags
    /\ pc' = "fb_fill"
    /\ UNCHANGED <<cfg, attempt, sample_try, target_indices, i, seq, is_target_flags,
                   lure_types, freqs, attempts, plans, path, raised,
                   tolerance_arg, verdict>>

\* one pass of the fallback's letter loop
FallbackFillTrial ==
    /\ UNCHANGED <<block_vars, main_vars>>
    /\ pc = "fb_fill"
    /\ i < cfg.n_trials
    /\ \E l \in FallbackLetters(cfg, target_flags, seq, i) :
         seq' = Append(seq, l)
    /\ lure_types' = Append(lure_types, "none")
    /\ i' = i + 1
    /\ UNCHANGED <<cfg, pc, attempt, sample_try, target_indices, is_target_flags,
                   freqs, target_flags, attempts, plans, path, raised,
                   tolerance_arg, verdict>>

\* FallbackPlans with the default remainder of the signature, 500, for iti_ms
Mut_FallbackPlans_DefaultIti(c, s, flags, lts) ==
    [k \in 1..c.n_trials |->
        TrialPlan(s[k], IF flags[k] = 1 THEN 1 ELSE 0, lts[k], DEFAULT_FIXED_ITI_MS)]

\* the plans packaged by the fallback
FallbackPlans(c, s, flags, lts) ==
    [k \in 1..c.n_trials |->
        TrialPlan(s[k], IF flags[k] = 1 THEN 1 ELSE 0, lts[k], c.fixed_iti_ms)]

FallbackReturn ==
    /\ UNCHANGED <<block_vars, main_vars>>
    /\ pc = "fb_fill"
    /\ i >= cfg.n_trials
    /\ plans' = FallbackPlans(cfg, seq, target_flags, lure_types)
    /\ path' = "fallback"
    /\ pc' = "done"
    /\ UNCHANGED <<cfg, attempt, sample_try, target_indices, i, seq, is_target_flags,
                   lure_types, freqs, target_flags, attempts, raised,
                   tolerance_arg, verdict>>

Next ==
    \/ AttemptStart
    \/ SampleReturnEmpty
    \/ SampleShuffle
    \/ SampleGiveUp
    \/ FillTrial
    \/ Validate
    \/ EnterFallback
    \/ FallbackPass
    \/ FallbackFinalPass
    \/ FallbackFillTrial
    \/ FallbackReturn

Spec == Init /\ [][Next]_vars

\* ------------------------------------------------ narrower sets of calls
\* the calls with default arguments
DefaultConfigs == {c \in Configs : IsDefaultCall(c)}

InitDefaults == Init /\ cfg \in DefaultConfigs

DefaultsSpec == InitDefaults /\ [][Next]_vars

\* the most targets that fit on len consecutive indices when no run may be
\* longer than max_consec
MaxPlaceable(len, max_consec) ==
    IF len <= 0 THEN 0 ELSE len - (len \div (max_consec + 1))

\* the calls in which a target count within one of the desired count fits
\* on the indices n_back..n_trials-1 under max_consec_targets
WithinOneConfigs ==
    {c \in Configs :
        desired_targets(c) - 1
            <= MaxPlaceable(c.n_trials - c.n_back, c.max_consec_targets)}

InitWithinOne == Init /\ cfg \in WithinOneConfigs

WithinOneSpec == InitWithinOne /\ [][Next]_vars

\* the call of scripts/preview_seq.py with its defaults: generate_sequence(2, 10)
\* with every keyword argument at its default, for zero or one primary attempt
ExampleConfigs ==
    {[n_back |-> PREVIEW_N_BACK,
      n_trials |-> PREVIEW_TRIALS,
      target_rate |-> TARGET_RATE,
      lure_n_minus_1_rate |-> LURE_N_MINUS_1_RATE,
      lure_n_plus_1_rate |-> LURE_N_PLUS_1_RATE,
      max_consec_targets |-> MAX_CONSEC_TARGETS_DEFAULT,
      max_identical_run |-> MAX_IDENTICAL_RUN,
      fixed_iti_ms |-> DEFAULT_FIXED_ITI_MS,
      max_attempts |-> m,
      soft_balance_initial |-> TRUE,
      include_lures |-> TRUE] : m \in {0, 1}}

\* the calls preview_seq.py makes: n_back and the number of trials from the
\* command line, every keyword argument at its default
InitExample ==
    /\ soa_arg = SOA_MS_DEFAULT
    /\ BlockIdle
    /\ MainIdle
    /\ cfg \in DefaultConfigs \cup ExampleConfigs
    /\ GenStart

ExampleSpec == InitExample /\ [][Next]_vars

\* ------------------------------------------- main: the session's configuration
\* the values of --soa-ms explored
SoaArgValues == {0, 300, 900, SOA_MS_DEFAULT}

\* CFG_SOA_MS = max(1, int(args.soa_ms))
CFG_SOA_MS == Max(1, soa_arg)

\* CFG_FIXED_ITI_MS = max(0, CFG_SOA_MS - STIM_DUR_MS)
CFG_FIXED_ITI_MS == Max(0, CFG_SOA_MS - STIM_DUR_MS)

\* the calls of generate_sequence that main makes for its blocks: n_back from
\* the load order, include_lures = True, max_identical_run left at its default
MainCalls ==
    {[c EXCEPT !.fixed_iti_ms = CFG_FIXED_ITI_MS] :
        c \in {d \in Configs : /\ d.n_back \in {1, 3}
                               /\ d.include_lures
                               /\ d.max_identical_run = MAX_IDENTICAL_RUN
                               /\ d.max_attempts < 2}}

\* the calls of generate_sequence that run_practice makes: 2-back, at least
\* one trial, the practice target rate, no lures
PracticeCalls ==
    {[c EXCEPT !.fixed_iti_ms = CFG_FIXED_ITI_MS,
               !.target_rate = PRACTICE_TARGET_RATE,
               !.lure_n_minus_1_rate = 0,
               !.lure_n_plus_1_rate = 0] :
        c \in {d \in Configs : /\ d.n_back = PRACTICE_N_BACK
                               /\ d.n_trials >= 1
                               /\ d.target_rate = TARGET_RATE
                               /\ ~d.include_lures
                               /\ d.max_identical_run = MAX_IDENTICAL_RUN
                               /\ d.max_attempts < 2}}

\* a call of generate_sequence by the session, for some --soa-ms
InitSession ==
    /\ soa_arg \in SoaArgValues
    /\ BlockIdle
    /\ MainIdle
    /\ cfg \in MainCalls \cup PracticeCalls
    /\ GenStart

SessionSpec == InitSession /\ [][Next]_vars

\* ---------------------------------------------------------------- run_block
\* One call of run_block on the plans generate_sequence returned.  The clock
\* is a simulated one: resp_clock advances only while win.flip() blocks, by a
\* delay drawn from RenderDelayValues, and a key press is stamped with the
\* last reading of the clock.  Times are whole milliseconds; the code's
\* seconds-to-milliseconds products (t * 1000.0) are exact on them.
MaxBlockTrials == 2
MaxKeyPresses == 2

\* how long one win.flip() can take, in ms
RenderDelayValues == {500, 700}

\* the keys of keyList=[KEY_RESPONSE, KEY_QUIT]
KeyList == {KEY_RESPONSE, KEY_QUIT}

\* the flag vectors of length n the fallback of generate_sequence returns for
\* call c: no target below n_back, no two adjacent targets, and as many
\* targets as desired or as fit
BlockFlags(c) ==
    {f \in [1..c.n_trials -> {0, 1}] :
        /\ \A k \in 1..c.n_trials : k <= c.n_back => f[k] = 0
        /\ MaxTargetRun(f) <= c.max_consec_targets
        /\ SumSeq(f) = Min(desired_targets(c),
                           MaxPlaceable(c.n_trials - c.n_back, c.max_consec_targets))}

RECURSIVE BlockLetters(_, _, _)
\* letters for flags f as the fallback's letter loop chooses them, taking the
\* first candidate each time
BlockLetters(c, f, s) ==
    IF Len(s) >= c.n_trials THEN s
    ELSE LET cands == FallbackLetters(c, f, s, Len(s))
             l == CHOOSE x \in cands : \A y \in cands : x <= y
         IN  BlockLetters(c, f, Append(s, l))

\* the plan lists run_block is given for the call c
BlockPlanLists(c) ==
    {FallbackPlans(c, BlockLetters(c, f, <<>>), f, [k \in 1..c.n_trials |-> "none"]) :
        f \in BlockFlags(c)}

\* the calls whose plans a block is run on
BlockCalls ==
    {c \in MainCalls \cup PracticeCalls :
        /\ c.n_trials <= MaxBlockTrials
        /\ c.max_attempts = 0
        /\ c.max_consec_targets = MAX_CONSEC_TARGETS_DEFAULT
        /\ c.target_rate \in {TARGET_RATE, PRACTICE_TARGET_RATE}}

\* generate_sequence has returned plans and run_block is about to be called
InitBlock ==
    /\ soa_arg \in SoaArgValues
    /\ cfg \in BlockCalls
    /\ plans \in BlockPlanLists(cfg)
    /\ pc = "done"
    /\ path = "fallback"
    /\ attempt = 0
    /\ sample_try = 0
    /\ target_indices = <<>>
    /\ i = 0
    /\ seq = <<>>
    /\ is_target_flags = <<>>
    /\ lure_types = <<>>
    /\ freqs = ZeroFreqs
    /\ target_flags = <<>>
    /\ attempts = 0
    /\ raised = FALSE
    /\ tolerance_arg = 1
    /\ verdict = <<>>
    /\ hw_kb \in BOOLEAN
    /\ is_practice = (cfg \in PracticeCalls)
    /\ b_pc = "start"
    /\ t_idx = 0
    /\ now_ms = 0
    /\ keybuf = <<>>
    /\ presses = 0
    /\ got_response = FALSE
    /\ resp_key = ""
    /\ rt_ms = <<>>
    /\ fixation_mark_sent = FALSE
    /\ shown = "none"
    /\ sent = <<>>
    /\ correct_count = 0
    /\ accs_out = <<>>
    /\ rts_out = <<>>
    /\ rows_out = <<>>
    /\ block_ret = <<>>
    /\ ABORT_WITHOUT_SAVE = FALSE
    /\ raised_sites = {}
    /\ MainIdle

\* the plan of the trial in progress
plan == plans[t_idx]

\* the event names that depend on the load
BlockStartEvent(n_back) == IF n_back = 1 THEN "block_ll_start" ELSE "block_hl_start"

\* BlockEndEvent with the low-load name under every load
Mut_BlockEndEvent(n_back) == "block_ll_end"

BlockEndEvent(n_back) == IF n_back = 1 THEN "block_ll_end" ELSE "block_hl_end"

\* ResponseEvent with the high-load name under every load
Mut_ResponseEvent(n_back) == "response_hl"

ResponseEvent(n_back) == IF n_back = 1 THEN "response_ll" ELSE "response_hl"

_marker_code_for_stim(is_target, lure_type) ==
    IF is_target # 0 THEN 41
    ELSE IF lure_type = "n-1" THEN 43
    ELSE IF lure_type = "n+1" THEN 44
    ELSE 42

\* what os.remove does to a file on which this process holds an open handle:
\* it removes the directory entry (Unix) or raises PermissionError (Windows)
RemoveOpenOutcomes == {"removed", "error"}

\* graceful_quit(None, None, rows, win, abort=True) but for the abort flag:
\* nothing is written, no handle is closed (f is None), CSV_PATH and META_PATH
\* are removed when they exist, an exception of os.remove being swallowed,
\* and core.quit() ends the program, which closes main's handle
graceful_quit ==
    /\ \E o \in RemoveOpenOutcomes :
         csv_exists' = (csv_exists /\ f_open /\ o = "error")
    /\ csv_rows' = IF csv_exists' THEN csv_rows ELSE <<>>
    /\ meta_exists' = FALSE
    /\ f_open' = FALSE
    /\ m_pc' = "quit"
    /\ UNCHANGED <<version, blocks_arg, trials_per_block, no_practice, phase_idx,
                   within_phase_b, block_counter, block_log>>

\* what a call of send_named can do: return, or raise an Exception (a
\* KeyError of the TRIGGERS lookup, an error of the marker backend)
SendOutcomes == {"ok", "error"}

\* Caught catching nothing: the calls of send_named outside try/except
Mut_Caught == {}

\* the outcomes that `except Exception: pass` around every call catches
Caught == {"error"}

\* the exception of outcome o leaves run_block
Escapes(o) == o # "ok" /\ o \notin Caught

\* the events whose call raised, for a call with outcome o requesting name
Failed(o, name) == IF o = "ok" THEN {} ELSE {name}

\* a key is pressed: the key buffer gets the press with its time
KeyPress ==
    /\ b_pc \in {"start", "onset", "flip", "poll"}
    /\ presses < MaxKeyPresses
    /\ \E k \in KeyList : keybuf' = Append(keybuf, [name |-> k, t |-> now_ms])
    /\ presses' = presses + 1
    /\ UNCHANGED <<gen_vars, main_vars, soa_arg, hw_kb, is_practice, b_pc, t_idx, now_ms,
                   got_response, resp_key, rt_ms, fixation_mark_sent, shown, sent,
                   correct_count, accs_out, rts_out, rows_out, block_ret,
                   ABORT_WITHOUT_SAVE, raised_sites>>

\* the block-start marker, the keyboard, correct_count = 0, and the head of
\* the trial loop
BlockStart ==
    /\ b_pc = "start"
    /\ sent' = Append(sent, BlockStartEvent(cfg.n_back))
    /\ correct_count' = 0
    /\ \E o \in SendOutcomes :
         /\ raised_sites' = Failed(o, BlockStartEvent(cfg.n_back))
         /\ b_pc' = IF Escapes(o) THEN "raised"
                    ELSE IF plans # <<>> THEN "onset" ELSE "end"
    /\ UNCHANGED <<gen_vars, main_vars, soa_arg, hw_kb, is_practice, t_idx, now_ms, keybuf,
                   presses, got_response, resp_key, rt_ms, fixation_mark_sent, shown,
                   accs_out, rts_out, rows_out, block_ret, ABORT_WITHOUT_SAVE>>

\* the head of a trial up to the flip: the stimulus is drawn, the response
\* clock is made, and the hardware keyboard's buffer is cleared
TrialPrepare ==
    /\ b_pc = "onset"
    /\ t_idx' = t_idx + 1
    /\ keybuf' = IF hw_kb THEN <<>> ELSE keybuf
    /\ b_pc' = "flip"
    /\ raised_sites' = {}
    /\ UNCHANGED <<gen_vars, main_vars, soa_arg, hw_kb, is_practice, now_ms, presses,
                   got_response, resp_key, rt_ms, fixation_mark_sent, shown, sent,
                   correct_count, accs_out, rts_out, rows_out, block_ret,
                   ABORT_WITHOUT_SAVE>>

\* key times seen from a clock reset `by` ms after the last reading
Rebased(buf, by) == [k \in 1..Len(buf) |-> [buf[k] EXCEPT !.t = @ - by]]

\* the stimulus-onset flip: it takes d ms and resets the response clock, so
\* presses made before it get times below zero; then the stimulus marker
\* and the trial's locals
TrialFlip ==
    /\ b_pc = "flip"
    /\ \E d \in RenderDelayValues : keybuf' = Rebased(keybuf, now_ms + d)
    /\ now_ms' = 0
    /\ shown' = "stimulus"
    /\ sent' = Append(sent, "stim_presentation")
    /\ got_response' = FALSE
    /\ resp_key' = ""
    /\ rt_ms' = <<>>
    /\ fixation_mark_sent' = FALSE
    /\ \E o \in SendOutcomes :
         /\ raised_sites' = Failed(o, "stim_presentation")
         /\ b_pc' = IF Escapes(o) THEN "raised" ELSE "poll"
    /\ UNCHANGED <<gen_vars, main_vars, soa_arg, hw_kb, is_practice, t_idx, presses,
                   correct_count, accs_out, rts_out, rows_out, block_ret,
                   ABORT_WITHOUT_SAVE>>

\* LoopExits comparing the clock with the stimulus duration
Mut_LoopExits(now, soa) == now >= STIM_DUR_MS

\* the polling loop's `if now_ms >= CFG_SOA_MS: break`
LoopExits(now, soa) == now >= soa

\* Examined without `not got_response`
Mut_Examined(keys, got) == keys # <<>>

\* `if keys and not got_response`: the polled keys are looked at
Examined(keys, got) == keys # <<>> /\ ~got

\* the first polled key is the quit key: graceful_quit(..., abort=True)
QuitSeen(keys, got) == Examined(keys, got) /\ keys[1].name = KEY_QUIT

\* the first polled key is latched as the response
Latched(keys, got) == Examined(keys, got) /\ keys[1].name # KEY_QUIT

\* kb.getKeys(clear=False) leaves the buffer as it is; event.getKeys removes
\* the keys it returns
BufferAfterPoll(hw, buf) == IF hw THEN buf ELSE <<>>

\* FixationDue without the test of fixation_mark_sent
Mut_FixationDue(now, mark_sent) == now >= STIM_DUR_MS

\* the fixation branch requests fixation_onset
FixationDue(now, mark_sent) == now >= STIM_DUR_MS /\ ~mark_sent

\* PollEvents with the drawing branch before the key polling
Mut_PollEvents(latch, fix, n_back) ==
    (IF fix THEN <<"fixation_onset">> ELSE <<>>)
        \o (IF latch THEN <<ResponseEvent(n_back)>> ELSE <<>>)

\* the events one pass of the polling loop requests, in order
PollEvents(latch, fix, n_back) ==
    (IF latch THEN <<ResponseEvent(n_back)>> ELSE <<>>)
        \o (IF fix THEN <<"fixation_onset">> ELSE <<>>)

\* one pass of the polling loop below SOA: the clock is read, the keys are
\* polled, the stimulus or the fixation is drawn, and win.flip() takes d ms.
\* A quit key that is looked at ends the program in graceful_quit.
Poll ==
    /\ b_pc = "poll"
    /\ ~LoopExits(now_ms, CFG_SOA_MS)
    /\ keybuf' = BufferAfterPoll(hw_kb, keybuf)
    /\ IF QuitSeen(keybuf, got_response)
       THEN /\ ABORT_WITHOUT_SAVE' = TRUE
            /\ graceful_quit
            /\ b_pc' = "quit"
            /\ raised_sites' = {}
            /\ UNCHANGED <<now_ms, got_response, resp_key, rt_ms,
                           fixation_mark_sent, shown, sent>>
       ELSE \E o1, o2 \in SendOutcomes :
            LET latch == Latched(keybuf, got_response)
                esc1 == latch /\ Escapes(o1)
                fix == ~esc1 /\ FixationDue(now_ms, fixation_mark_sent)
                esc2 == fix /\ Escapes(o2)
            IN  /\ got_response' = (got_response \/ latch)
                /\ resp_key' = IF latch THEN keybuf[1].name ELSE resp_key
                /\ rt_ms' = IF latch THEN <<keybuf[1].t>> ELSE rt_ms
                /\ sent' = sent \o PollEvents(latch, fix, cfg.n_back)
                /\ raised_sites' =
                       (IF latch THEN Failed(o1, ResponseEvent(cfg.n_back)) ELSE {})
                           \cup (IF fix THEN Failed(o2, "fixation_onset") ELSE {})
                /\ IF esc1 \/ esc2
                   THEN /\ b_pc' = "raised"
                        /\ UNCHANGED <<now_ms, fixation_mark_sent, shown>>
                   ELSE /\ fixation_mark_sent' =
                               (fixation_mark_sent \/ now_ms >= STIM_DUR_MS)
                        /\ shown' = IF now_ms < STIM_DUR_MS THEN "stimulus"
                                    ELSE "fixation"
                        /\ \E d \in RenderDelayValues : now_ms' = now_ms + d
                        /\ UNCHANGED b_pc
                /\ UNCHANGED <<ABORT_WITHOUT_SAVE, main_vars>>
    /\ UNCHANGED <<gen_vars, soa_arg, hw_kb, is_practice, t_idx, presses,
                   correct_count, accs_out, rts_out, rows_out, block_ret>>

\* Correct without the correct-rejection disjunct
Mut_Correct(is_target, key) ==
    IF is_target = 1 /\ key = KEY_RESPONSE THEN 1 ELSE 0

\* int((is_target == 1 and is_space) or (is_target == 0 and not is_space))
Correct(is_target, key) ==
    LET is_space == (key = KEY_RESPONSE)
    IN  IF (is_target = 1 /\ is_space) \/ (is_target = 0 /\ ~is_space) THEN 1 ELSE 0

\* the record of the trial; "" and None are the empty sequence in rt_ms and
\* marker_code_resp.  The columns that do not depend on the trial
\* (participant, session, onset time) are left out.
Row(p, correct) ==
    [block_idx |-> block_counter,
     trial_idx |-> t_idx,
     n_back |-> cfg.n_back,
     stimulus |-> p.stimulus,
     is_target |-> p.is_target,
     lure_type |-> p.lure_type,
     iti_ms |-> p.iti_ms,
     response_key |-> resp_key,
     rt_ms |-> rt_ms,
     correct |-> correct,
     marker_code_stim |-> _marker_code_for_stim(p.is_target, p.lure_type),
     marker_code_resp |-> IF got_response
                          THEN <<IF cfg.n_back = 1 THEN 50 ELSE 51>> ELSE <<>>]

\* Collected without the test of correct
Mut_Collected(rts, correct, rt) == IF rt # <<>> THEN Append(rts, rt[1]) ELSE rts

\* `if correct and rt_ms is not None: rts_out.append(rt_ms)`
Collected(rts, correct, rt) ==
    IF correct = 1 /\ rt # <<>> THEN Append(rts, rt[1]) ELSE rts

\* the polling loop ends at SOA; the trial is scored and recorded, and the
\* trial loop goes on or ends
Score ==
    /\ b_pc = "poll"
    /\ LoopExits(now_ms, CFG_SOA_MS)
    /\ LET correct == Correct(plan.is_target, resp_key)
       IN  /\ correct_count' = correct_count + correct
           /\ accs_out' = Append(accs_out, correct)
           /\ rts_out' = Collected(rts_out, correct, rt_ms)
           /\ rows_out' = IF ~is_practice THEN Append(rows_out, Row(plan, correct))
                          ELSE rows_out
    /\ b_pc' = IF t_idx < Len(plans) THEN "onset" ELSE "end"
    /\ raised_sites' = {}
    /\ UNCHANGED <<gen_vars, main_vars, soa_arg, hw_kb, is_practice, t_idx, now_ms, keybuf,
                   presses, got_response, resp_key, rt_ms, fixation_mark_sent, shown,
                   sent, block_ret, ABORT_WITHOUT_SAVE>>

\* Accuracy dividing by the number of trials scored correct
Mut_Accuracy(correct, n) == IF n > 0 THEN <<correct, Max(correct, 1)>> ELSE <<0, 1>>

\* acc = correct_count / len(plans) if plans else 0.0, as numerator and
\* denominator
Accuracy(correct, n) == IF n > 0 THEN <<correct, n>> ELSE <<0, 1>>

\* mean_rt = (sum(rts_out) / len(rts_out)) if rts_out else None, as numerator
\* and denominator, <<>> for None
MeanRt(rts) == IF rts # <<>> THEN <<SumSeq(rts), Len(rts)>> ELSE <<>>

\* the block-end marker and the return value
BlockEnd ==
    /\ b_pc = "end"
    /\ sent' = Append(sent, BlockEndEvent(cfg.n_back))
    /\ \E o \in SendOutcomes :
         /\ raised_sites' = Failed(o, BlockEndEvent(cfg.n_back))
         /\ IF Escapes(o)
            THEN b_pc' = "raised" /\ UNCHANGED block_ret
            ELSE /\ b_pc' = "returned"
                 /\ block_ret' = [acc |-> Accuracy(correct_count, Len(plans)),
                                  mean_rt |-> MeanRt(rts_out)]
    /\ UNCHANGED <<gen_vars, main_vars, soa_arg, hw_kb, is_practice, t_idx, now_ms, keybuf,
                   presses, got_response, resp_key, rt_ms, fixation_mark_sent, shown,
                   correct_count, accs_out, rts_out, rows_out, ABORT_WITHOUT_SAVE>>

BlockNext ==
    \/ KeyPress
    \/ BlockStart
    \/ TrialPrepare
    \/ TrialFlip
    \/ Poll
    \/ Score
    \/ BlockEnd

BlockSpec == InitBlock /\ [][BlockNext]_vars

\* the calls of main with --trials one above MaxBlockTrials, --target-rate
\* 0.75 and --max-consec-targets 2 on the 1-back load: blocks with two
\* targets or more
HitCalls ==
    {c \in MainCalls :
        /\ c.n_back = 1
        /\ c.n_trials = MaxBlockTrials + 1
        /\ c.target_rate = 75
        /\ c.max_consec_targets = 2
        /\ c.max_attempts = 0}

\* the values of --soa-ms under which a trial takes two polls at most
ShortSoaValues == {a \in SoaArgValues : a < SOA_MS_DEFAULT}

\* run_block is about to be called by main on the plans of such a call, or
\* on an empty plan list (--trials 0)
InitHits ==
    /\ soa_arg \in ShortSoaValues
    /\ cfg \in HitCalls \cup {c \in BlockCalls \cap MainCalls : c.n_trials = 0}
    /\ plans \in BlockPlanLists(cfg)
    /\ pc = "done"
    /\ path = "fallback"
    /\ attempt = 0
    /\ sample_try = 0
    /\ target_indices = <<>>
    /\ i = 0
    /\ seq = <<>>
    /\ is_target_flags = <<>>
    /\ lure_types = <<>>
    /\ freqs = ZeroFreqs
    /\ target_flags = <<>>
    /\ attempts = 0
    /\ raised = FALSE
    /\ tolerance_arg = 1
    /\ verdict = <<>>
    /\ hw_kb \in BOOLEAN
    /\ is_practice = FALSE
    /\ b_pc = "start"
    /\ t_idx = 0
    /\ now_ms = 0
    /\ keybuf = <<>>
    /\ presses = 0
    /\ got_response = FALSE
    /\ resp_key = ""
    /\ rt_ms = <<>>
    /\ fixation_mark_sent = FALSE
    /\ shown = "none"
    /\ sent = <<>>
    /\ correct_count = 0
    /\ accs_out = <<>>
    /\ rts_out = <<>>
    /\ rows_out = <<>>
    /\ block_ret = <<>>
    /\ ABORT_WITHOUT_SAVE = FALSE
    /\ raised_sites = {}
    /\ MainIdle

HitsSpec == InitHits /\ [][BlockNext]_vars

\* ----------------------------------------------------------------------- main
\* One session: the screens, the session files, the practice loop and the
\* two loads.  A call of generate_sequence is one step that takes one of the
\* plan lists the call returns, and run_block runs by the actions above.
\* The values of the command line explored
VersionValues == {"A", "B"}

BlocksArgValues == {0, 1, 2}

MainTrialsValues == {0, 1, 2}

\* the values of --soa-ms explored for a whole session
SessionSoaValues == {300}

\* practice_trials = max(1, int(args.practice_trials)) for --practice-trials 1
PracticeTrials == Max(1, 1)

\* load_order without the test of the version
Mut_load_order == <<1, 3>>

\* load_order = [1, 3] if args.version == "A" else [3, 1]
load_order == IF version = "A" THEN <<1, 3>> ELSE <<3, 1>>

\* blocks_per_load = max(1, int(args.blocks_per_load))
blocks_per_load == Max(1, blocks_arg)

total_blocks == 2 * blocks_per_load

\* the call of generate_sequence in main's block loop
MainCall(n_back) ==
    {c \in BlockCalls \cap MainCalls :
        /\ c.n_back = n_back
        /\ c.n_trials = trials_per_block
        /\ c.target_rate = TARGET_RATE}

\* the call of generate_sequence in run_practice
PracticeCall ==
    {c \in BlockCalls \cap PracticeCalls : c.n_trials = PracticeTrials}

\* the keys event.waitKeys(keyList=[KEY_PROCEED, KEY_QUIT]) can return
ScreenKeys == (SUBSET {KEY_PROCEED, KEY_QUIT}) \ {{}}

\* main is started
InitMain ==
    /\ soa_arg \in SessionSoaValues
    /\ m_pc = "consent"
    /\ version \in VersionValues
    /\ blocks_arg \in BlocksArgValues
    /\ trials_per_block \in MainTrialsValues
    /\ no_practice \in BOOLEAN
    /\ phase_idx = 0
    /\ within_phase_b = 0
    /\ block_counter = 0
    /\ f_open = FALSE
    /\ csv_exists = FALSE
    /\ csv_rows = <<>>
    /\ meta_exists = FALSE
    /\ block_log = <<>>
    /\ BlockIdle
    /\ hw_kb \in BOOLEAN
    /\ cfg \in MainCall(load_order[1])
    /\ pc = "done"
    /\ path = "none"
    /\ attempt = 0
    /\ sample_try = 0
    /\ target_indices = <<>>
    /\ i = 0
    /\ seq = <<>>
    /\ is_target_flags = <<>>
    /\ lure_types = <<>>
    /\ freqs = ZeroFreqs
    /\ target_flags = <<>>
    /\ attempts = 0
    /\ plans = <<>>
    /\ raised = FALSE
    /\ tolerance_arg = 1
    /\ verdict = <<>>

\* the tail of every instruction screen: event.clearEvents(), then waitKeys;
\* the quit key ends the session in graceful_quit, else the proceed key goes
\* on to the position `to`
Screen(to) ==
    /\ keybuf' = <<>>
    /\ \E keys \in ScreenKeys :
         IF KEY_QUIT \in keys
         THEN /\ ABORT_WITHOUT_SAVE' = TRUE
              /\ graceful_quit
         ELSE /\ m_pc' = to
              /\ UNCHANGED <<ABORT_WITHOUT_SAVE, version, blocks_arg, trials_per_block,
                             no_practice, phase_idx, within_phase_b, block_counter,
                             f_open, csv_exists, csv_rows, meta_exists, block_log>>

\* the variables of run_block and generate_sequence a screen leaves alone
ScreenFrame ==
    UNCHANGED <<gen_vars, soa_arg, hw_kb, is_practice, b_pc, t_idx, now_ms, presses,
                got_response, resp_key, rt_ms, fixation_mark_sent, shown, sent,
                correct_count, accs_out, rts_out, rows_out, block_ret, raised_sites>>

show_consent ==
    /\ m_pc = "consent"
    /\ Screen("instructions")
    /\ ScreenFrame

show_instructions_multi ==
    /\ m_pc = "instructions"
    /\ Screen("headsup")
    /\ ScreenFrame

\* show_practice_headsup, before the files are prepared and after a failed
\* practice
show_practice_headsup ==
    /\ m_pc \in {"headsup", "headsup_again"}
    /\ Screen(IF m_pc = "headsup" THEN "prepare" ELSE "practice")
    /\ ScreenFrame

\* the CSV file is opened and its header written, the metadata file is
\* written and closed; then the practice phase or the first load
PrepareFiles ==
    /\ m_pc = "prepare"
    /\ f_open' = TRUE
    /\ csv_exists' = TRUE
    /\ csv_rows' = <<>>
    /\ meta_exists' = TRUE
    /\ m_pc' = IF ~no_practice /\ PracticeTrials > 0 THEN "practice" ELSE "phase"
    /\ UNCHANGED <<gen_vars, block_vars, version, blocks_arg, trials_per_block,
                   no_practice, phase_idx, within_phase_b, block_counter, block_log>>

\* run_block is entered with fresh locals on the plans of call c
EnterBlock(c, practice) ==
    /\ cfg' = c
    /\ plans' \in BlockPlanLists(c)
    /\ path' = "fallback"
    /\ is_practice' = practice
    /\ b_pc' = "start"
    /\ t_idx' = 0
    /\ now_ms' = 0
    /\ got_response' = FALSE
    /\ resp_key' = ""
    /\ rt_ms' = <<>>
    /\ fixation_mark_sent' = FALSE
    /\ sent' = <<>>
    /\ correct_count' = 0
    /\ accs_out' = <<>>
    /\ rts_out' = <<>>
    /\ block_ret' = <<>>
    /\ raised_sites' = {}
    /\ UNCHANGED <<pc, attempt, sample_try, target_indices, i, seq, is_target_flags,
                   lure_types, freqs, target_flags, attempts, raised, tolerance_arg, verdict,
                   soa_arg, hw_kb,
                   keybuf, presses, shown, rows_out, ABORT_WITHOUT_SAVE>>

\* run_practice up to its call of run_block
PracticeStart ==
    /\ m_pc = "practice"
    /\ \E c \in PracticeCall : EnterBlock(c, TRUE)
    /\ m_pc' = "practice_block"
    /\ UNCHANGED <<version, blocks_arg, trials_per_block, no_practice, phase_idx,
                   within_phase_b, block_counter, f_open, csv_exists, csv_rows,
                   meta_exists, block_log>>

\* PracticePassed for every practice block that was run
Mut_PracticePassed(accs) == accs # <<>>

\* acc >= PRACTICE_PASS_ACC for acc = sum(accs) / len(accs) if accs else 0.0
PracticePassed(accs) ==
    accs # <<>> /\ 100 * SumSeq(accs) >= PRACTICE_PASS_ACC * Len(accs)

\* run_practice after run_block: the feedback screen, and main's test of
\* the accuracy
PracticeFeedback ==
    /\ m_pc = "practice_block"
    /\ b_pc = "returned"
    /\ Screen(IF PracticePassed(accs_out) THEN "phase" ELSE "headsup_again")
    /\ b_pc' = "idle"
    /\ UNCHANGED <<gen_vars, soa_arg, hw_kb, is_practice, t_idx, now_ms, presses,
                   got_response, resp_key, rt_ms, fixation_mark_sent, shown, sent,
                   correct_count, accs_out, rts_out, rows_out, block_ret,
                   raised_sites>>

\* the head of the loop over load_order with a load left:
\* show_phase_instructions, then the loop over the blocks of the load
PhaseStart ==
    /\ m_pc = "phase"
    /\ phase_idx < Len(load_order)
    /\ keybuf' = <<>>
    /\ \E keys \in ScreenKeys :
         IF KEY_QUIT \in keys
         THEN /\ ABORT_WITHOUT_SAVE' = TRUE
              /\ graceful_quit
         ELSE /\ m_pc' = "next_block"
              /\ phase_idx' = phase_idx + 1
              /\ within_phase_b' = 0
              /\ UNCHANGED <<ABORT_WITHOUT_SAVE, version, blocks_arg, trials_per_block,
                             no_practice, block_counter, f_open, csv_exists, csv_rows,
                             meta_exists, block_log>>
    /\ ScreenFrame

\* the head of the loop over the blocks of a load with a block left:
\* generate_sequence and the call of run_block
BlockCall ==
    /\ m_pc = "next_block"
    /\ within_phase_b < blocks_per_load
    /\ within_phase_b' = within_phase_b + 1
    /\ block_counter' = block_counter + 1
    /\ \E c \in MainCall(load_order[phase_idx]) : EnterBlock(c, FALSE)
    /\ block_log' = Append(block_log, [block_idx |-> block_counter + 1,
                                       n_back |-> load_order[phase_idx]])
    /\ m_pc' = "main_block"
    /\ UNCHANGED <<version, blocks_arg, trials_per_block, no_practice, phase_idx,
                   f_open, csv_exists, csv_rows, meta_exists>>

\* the blocks of a load are done: back to the loop over load_order
PhaseEnd ==
    /\ m_pc = "next_block"
    /\ within_phase_b >= blocks_per_load
    /\ m_pc' = "phase"
    /\ UNCHANGED <<gen_vars, block_vars, version, blocks_arg, trials_per_block,
                   no_practice, phase_idx, within_phase_b, block_counter, f_open,
                   csv_exists, csv_rows, meta_exists, block_log>>

\* PersistBlock without all_rows.clear()
Mut_PersistBlock ==
    /\ m_pc = "main_block"
    /\ b_pc = "returned"
    /\ csv_rows' = csv_rows \o rows_out
    /\ b_pc' = "idle"
    /\ m_pc' = IF block_counter < total_blocks THEN "break" ELSE "next_block"
    /\ UNCHANGED <<gen_vars, soa_arg, hw_kb, is_practice, t_idx, now_ms, keybuf,
                   presses, got_response, resp_key, rt_ms, fixation_mark_sent, shown,
                   sent, correct_count, accs_out, rts_out, rows_out, block_ret,
                   ABORT_WITHOUT_SAVE, raised_sites, version, blocks_arg,
                   trials_per_block, no_practice, phase_idx, within_phase_b,
                   block_counter, f_open, csv_exists, meta_exists, block_log>>

\* run_block has returned: the rows of the block are written and all_rows
\* is cleared; a break screen follows but after the last block
PersistBlock ==
    /\ m_pc = "main_block"
    /\ b_pc = "returned"
    /\ csv_rows' = csv_rows \o rows_out
    /\ rows_out' = <<>>
    /\ b_pc' = "idle"
    /\ m_pc' = IF block_counter < total_blocks THEN "break" ELSE "next_block"
    /\ UNCHANGED <<gen_vars, soa_arg, hw_kb, is_practice, t_idx, now_ms, keybuf,
                   presses, got_response, resp_key, rt_ms, fixation_mark_sent, shown,
                   sent, correct_count, accs_out, rts_out, block_ret,
                   ABORT_WITHOUT_SAVE, raised_sites, version, blocks_arg,
                   trials_per_block, no_practice, phase_idx, within_phase_b,
                   block_counter, f_open, csv_exists, meta_exists, block_log>>

show_break ==
    /\ m_pc = "break"
    /\ Screen("next_block")
    /\ ScreenFrame

\* both loads are done: show_thanks
show_thanks ==
    /\ m_pc = "phase"
    /\ phase_idx >= Len(load_order)
    /\ m_pc' = "save_prompt"
    /\ UNCHANGED <<gen_vars, block_vars, version, blocks_arg, trials_per_block,
                   no_practice, phase_idx, within_phase_b, block_counter, f_open,
                   csv_exists, csv_rows, meta_exists, block_log>>

\* show_save_and_exit_prompt takes the proceed key only; then the final
\* flush of all_rows and the close of the file
SaveAndExit ==
    /\ m_pc = "save_prompt"
    /\ keybuf' = <<>>
    /\ csv_rows' = csv_rows \o rows_out
    /\ f_open' = FALSE
    /\ m_pc' = "finished"
    /\ UNCHANGED <<gen_vars, soa_arg, hw_kb, is_practice, b_pc, t_idx, now_ms,
                   presses, got_response, resp_key, rt_ms, fixation_mark_sent, shown,
                   sent, correct_count, accs_out, rts_out, rows_out, block_ret,
                   ABORT_WITHOUT_SAVE, raised_sites, version, blocks_arg,
                   trials_per_block, no_practice, phase_idx, within_phase_b,
                   block_counter, csv_exists, meta_exists, block_log>>

MainNext ==
    \/ show_consent
    \/ show_instructions_multi
    \/ show_practice_headsup
    \/ PrepareFiles
    \/ PracticeStart
    \/ PracticeFeedback
    \/ PhaseStart
    \/ BlockCall
    \/ PhaseEnd
    \/ PersistBlock
    \/ show_break
    \/ show_thanks
    \/ SaveAndExit
    \/ KeyPress
    \/ BlockStart
    \/ TrialPrepare
    \/ TrialFlip
    \/ Poll
    \/ Score
    \/ BlockEnd

MainSpec == InitMain /\ [][MainNext]_vars

\* ---------------------------------------------------------------- properties
\* the trial at 0-based index k of the returned plans
Plan(k) == plans[k + 1]

Indices == 0..(Len(plans) - 1)

PlanFlags == [k \in 1..Len(plans) |-> plans[k].is_target]

TargetCount == SumSeq(PlanFlags)

Returned == pc = "done"

\* C1: a returned sequence (primary or fallback) has is_target = 0 at every
\* index below n_back.
C1_NoEarlyTarget ==
    Returned => \A k \in Indices : k < cfg.n_back => Plan(k).is_target = 0

\* a fallback-built sequence whose first eligible index n_back is a target
C1_Witness ==
    /\ Returned
    /\ path = "fallback"
    /\ Len(plans) > cfg.n_back
    /\ Plan(cfg.n_back).is_target = 1

\* C2: in a returned sequence every trial flagged is_target = 1 shows the
\* letter shown n_back trials earlier.
C2_TargetRepeatsNBack ==
    Returned =>
        \A k \in Indices :
            (Plan(k).is_target = 1 /\ k >= cfg.n_back)
                => Plan(k).stimulus = Plan(k - cfg.n_back).stimulus

\* C3: in a returned sequence every trial at index >= n_back that is not a
\* target (filler or lure) differs from the letter n_back trials earlier.
C3_NonTargetDiffersFromNBack ==
    Returned =>
        \A k \in Indices :
            (k >= cfg.n_back /\ Plan(k).is_target = 0)
                => Plan(k).stimulus # Plan(k - cfg.n_back).stimulus

\* a primary-path sequence holding a lure and a plain filler at indices >= n_back
C3_Witness ==
    /\ Returned
    /\ path = "primary"
    /\ \E k \in Indices :
         k >= cfg.n_back /\ Plan(k).is_target = 0 /\ Plan(k).lure_type # "none"
    /\ \E k \in Indices :
         k >= cfg.n_back /\ Plan(k).is_target = 0 /\ Plan(k).lure_type = "none"

\* C4: the number of targets of a returned sequence is within 1 of
\* round(target_rate * n_trials).
C4_TargetCountWithinOne ==
    Returned =>
        /\ desired_targets(cfg) - 1 <= TargetCount
        /\ TargetCount <= desired_targets(cfg) + 1

\* C5: a returned sequence has no run of more than max_consec_targets
\* consecutive targets.
C5_TargetRunsBounded ==
    Returned => MaxTargetRun(PlanFlags) <= cfg.max_consec_targets

\* C6: every trial labelled "n-1" in a returned sequence has n_back > 1, is
\* at index >= n_back - 1, repeats the letter n_back - 1 trials earlier and,
\* from index n_back on, differs from the letter n_back trials earlier.
C6_NMinus1LureValid ==
    Returned =>
        \A k \in Indices :
            Plan(k).lure_type = "n-1" =>
                /\ cfg.n_back > 1
                /\ k >= cfg.n_back - 1
                /\ Plan(k).stimulus = Plan(k - (cfg.n_back - 1)).stimulus
                /\ (k >= cfg.n_back
                        => Plan(k).stimulus # Plan(k - cfg.n_back).stimulus)

\* a returned sequence with an "n-1" lure at an index >= n_back
C6_Witness ==
    /\ Returned
    /\ \E k \in Indices : Plan(k).lure_type = "n-1" /\ k >= cfg.n_back

\* C7: every trial labelled "n+1" in a returned sequence is at index
\* >= n_back + 1, repeats the letter n_back + 1 trials earlier and differs
\* from the letter n_back trials earlier.
C7_NPlus1LureValid ==
    Returned =>
        \A k \in Indices :
            Plan(k).lure_type = "n+1" =>
                /\ k >= cfg.n_back + 1
                /\ Plan(k).stimulus = Plan(k - (cfg.n_back + 1)).stimulus
                /\ Plan(k).stimulus # Plan(k - cfg.n_back).stimulus

\* a returned sequence with an "n+1" lure
C7_Witness ==
    /\ Returned
    /\ \E k \in Indices : Plan(k).lure_type = "n+1"

\* C8: every returned TrialPlan is a target, a lure or a plain filler and
\* never two of them: a target has lure_type "none", and lure_type is one
\* of "none", "n-1", "n+1".
C8_OneKindPerTrial ==
    Returned =>
        \A k \in Indices :
            /\ Plan(k).is_target \in {0, 1}
            /\ Plan(k).lure_type \in {"none", "n-1", "n+1"}
            /\ (Plan(k).is_target = 1 => Plan(k).lure_type = "none")

\* a returned sequence in which a lure directly follows a target
C8_Witness ==
    /\ Returned
    /\ \E k \in Indices :
         /\ k >= 1
         /\ Plan(k - 1).is_target = 1
         /\ Plan(k).lure_type # "none"

\* C9: generate_sequence never raises, and what it returns has exactly
\* n_trials entries, infeasible configurations and max_attempts = 0 included.
C9_NeverRaisesFullLength ==
    /\ ~raised
    /\ pc # "raised"
    /\ (Returned => Len(plans) = cfg.n_trials)

\* a return with max_attempts = 0 and fewer trials than n_back although
\* targets are desired
C9_Witness ==
    /\ Returned
    /\ cfg.max_attempts = 0
    /\ cfg.n_trials > 0
    /\ cfg.n_trials < cfg.n_back
    /\ desired_targets(cfg) > 0
    /\ Len(plans) = cfg.n_trials

\* the loop counters stay within their budgets
LoopBounds ==
    /\ attempt <= cfg.max_attempts
    /\ sample_try <= SAMPLE_ATTEMPTS
    /\ attempts <= FALLBACK_PASSES

\* steps left in the fallback from its placement loop on, at most
FallbackRank == (FALLBACK_PASSES - attempts) + 1 + cfg.n_trials + 1

\* steps one primary attempt takes, at most
AttemptCost == 1 + SAMPLE_ATTEMPTS + 1 + cfg.n_trials + 1 + 1

\* an upper bound on the number of steps still to come
Rank ==
    LET later == (cfg.max_attempts - attempt) * AttemptCost
                     + 1 + FALLBACK_PASSES + 1 + cfg.n_trials + 1
    IN  CASE pc = "loop" -> later
          [] pc = "sample" -> later + (SAMPLE_ATTEMPTS - sample_try) + 1
                                  + cfg.n_trials + 1 + 1
          [] pc = "fill" -> later + (cfg.n_trials - i) + 1
          [] pc = "fb_place" -> FallbackRank
          [] pc = "fb_fill" -> (cfg.n_trials - i) + 1
          [] OTHER -> 0

Terminated == pc \in {"done", "raised"}

\* C10: every call terminates: at most max_attempts primary attempts, at
\* most SAMPLE_ATTEMPTS shuffles per sampling, at most FALLBACK_PASSES passes
\* of the fallback placement loop; every step lowers the bound Rank on the
\* steps left, and a step is possible until the call has ended.
C10_Terminates ==
    /\ [](LoopBounds /\ Rank >= 0 /\ (Terminated \/ ENABLED Next))
    /\ [][Rank' < Rank]_vars

\* the fallback returned after 50 passes that could not reach the desired
\* count, after two primary attempts
C10_Witness ==
    /\ Returned
    /\ path = "fallback"
    /\ attempt = 2
    /\ attempts = FALLBACK_PASSES
    /\ TargetCount < desired_targets(cfg)

\* C12: for n_back = 2, n_trials = 10, target_rate = 0.3 and the other
\* arguments at their defaults, every returned sequence (primary or
\* fallback) has 10 elements, 2, 3 or 4 targets, and no target at index 0
\* or 1.
C12_PreviewExample ==
    (Returned /\ cfg \in ExampleConfigs) =>
        /\ Len(plans) = PREVIEW_TRIALS
        /\ TargetCount \in {2, 3, 4}
        /\ Plan(0).is_target = 0
        /\ Plan(1).is_target = 0

\* the example call returned from the fallback after a primary attempt whose
\* sequence failed validation
C12_Witness ==
    /\ Returned
    /\ cfg \in ExampleConfigs
    /\ cfg.max_attempts = 1
    /\ attempt = 1
    /\ path = "fallback"
    /\ Len(plans) = PREVIEW_TRIALS
    /\ TargetCount = desired_targets(cfg)

\* C13: every returned TrialPlan, primary or fallback, carries iti_ms equal to
\* the fixed_iti_ms argument, which the session derives as
\* max(0, SOA - stimulus duration): 2000 for SOA 2500 and stimulus duration
\* 500, and never negative, also when SOA is below the stimulus duration.
C13_ItiIsSoaRemainder ==
    Returned =>
        \A k \in Indices :
            /\ Plan(k).iti_ms = cfg.fixed_iti_ms
            /\ Plan(k).iti_ms >= 0
            /\ Plan(k).iti_ms = IF CFG_SOA_MS >= STIM_DUR_MS
                                THEN CFG_SOA_MS - STIM_DUR_MS ELSE 0
            /\ (soa_arg = 2500 /\ STIM_DUR_MS = 500 => Plan(k).iti_ms = 2000)

\* a fallback-built block for an SOA below the stimulus duration
C13_Witness ==
    /\ Returned
    /\ path = "fallback"
    /\ Len(plans) > 0
    /\ 1 < CFG_SOA_MS
    /\ CFG_SOA_MS < STIM_DUR_MS
    /\ \A k \in Indices : Plan(k).iti_ms = 0

\* ------------------------------------------------- properties of run_block
\* a step of the polling loop that goes on to the next pass
PollStep == b_pc = "poll" /\ now_ms' # now_ms

\* the trial's polling loop ends and the trial is scored
ScoreStep == b_pc = "poll" /\ b_pc' \in {"onset", "end"}

\* a trial has just been completed
TrialDone == b_pc \in {"onset", "end"} /\ t_idx >= 1

RECURSIVE LastIndexOf(_, _)
\* the last position of e in s, 0 when there is none
LastIndexOf(s, e) ==
    IF s = <<>> THEN 0
    ELSE IF s[Len(s)] = e THEN Len(s)
    ELSE LastIndexOf(SubSeq(s, 1, Len(s) - 1), e)

\* the events requested since the last stimulus onset, the onset included
TrialEvents ==
    LET p == LastIndexOf(sent, "stim_presentation")
    IN  IF p = 0 THEN <<>> ELSE SubSeq(sent, p, Len(sent))

CountOf(s, e) == Cardinality({k \in 1..Len(s) : s[k] = e})

Last(s) == s[Len(s)]

\* C14: for every trial run to completion the recorded correct flag is 1
\* exactly when (is_target and a response was latched) or (not is_target and
\* no response was latched), whatever the phase the response came in and on
\* both keyboard backends.
C14_ScoreMatchesLatch ==
    [][ScoreStep =>
          LET expect == IF \/ (plan.is_target = 1 /\ got_response)
                           \/ (plan.is_target = 0 /\ ~got_response)
                        THEN 1 ELSE 0
          IN  /\ accs_out' = Append(accs_out, expect)
              /\ (~is_practice =>
                      /\ Len(rows_out') = Len(rows_out) + 1
                      /\ Last(rows_out').correct = expect)]_vars

\* a target trial scored correct on the hardware keyboard whose response was
\* made during fixation
C14_Witness ==
    /\ TrialDone
    /\ hw_kb
    /\ plan.is_target = 1
    /\ got_response
    /\ rt_ms # <<>>
    /\ rt_ms[1] >= STIM_DUR_MS
    /\ Last(accs_out) = 1

\* C15: at most one response is latched per trial: the first key event
\* polled in the trial; once latched, resp_key, rt_ms and the response event
\* are not overwritten or repeated by later key presses of the trial.
C15_OneLatchPerTrial ==
    [][/\ (b_pc = "poll" /\ got_response) =>
             /\ got_response'
             /\ resp_key' = resp_key
             /\ rt_ms' = rt_ms
             /\ CountOf(sent', ResponseEvent(cfg.n_back))
                    = CountOf(sent, ResponseEvent(cfg.n_back))
       /\ (b_pc = "poll" /\ ~got_response /\ got_response') =>
             /\ keybuf # <<>>
             /\ resp_key' = keybuf[1].name
             /\ rt_ms' = <<keybuf[1].t>>
             /\ CountOf(TrialEvents, ResponseEvent(cfg.n_back)) = 0
             /\ CountOf(TrialEvents', ResponseEvent(cfg.n_back)) = 1]_vars

\* on the hardware keyboard a second response press, made after the latch,
\* has been through a later poll and the latched values are those of the first
C15_Witness ==
    /\ b_pc = "poll"
    /\ hw_kb
    /\ got_response
    /\ Len(keybuf) = 2
    /\ keybuf[2].name = KEY_RESPONSE
    /\ keybuf[2].t > keybuf[1].t
    /\ now_ms > keybuf[2].t
    /\ rt_ms = <<keybuf[1].t>>
    /\ CountOf(TrialEvents, ResponseEvent(cfg.n_back)) = 1

\* C16: with a simulated clock and every flip delay below SOA, in every
\* trial the switch from drawing the stimulus to drawing fixation happens at
\* elapsed time = stimulus duration exactly, and the polling loop exits at
\* elapsed time = SOA exactly.
C16_ExactTiming ==
    [][(\A d \in RenderDelayValues : d < CFG_SOA_MS) =>
          /\ (PollStep /\ shown = "stimulus" /\ shown' = "fixation")
                 => now_ms = STIM_DUR_MS
          /\ ScoreStep => now_ms = CFG_SOA_MS]_vars

\* C17: unless a quit key is seen, the polling loop of a trial is left only
\* with the clock at SOA or later; latching a response does not end it, and
\* the next trial is started only after the loop of the previous one ended.
C17_NoEarlyExit ==
    [][/\ ScoreStep => now_ms >= CFG_SOA_MS
       /\ (b_pc = "poll" /\ b_pc' \notin {"poll", "quit"}) => ScoreStep
       /\ (b_pc = "poll" /\ ~got_response /\ got_response') => b_pc' = "poll"
       /\ t_idx' # t_idx =>
              /\ b_pc = "onset"
              /\ t_idx' = t_idx + 1
              /\ (t_idx >= 1 => now_ms >= CFG_SOA_MS)]_vars

\* a trial at the default SOA that ran to its end although its response was
\* latched at the first poll
C17_Witness ==
    /\ TrialDone
    /\ CFG_SOA_MS = SOA_MS_DEFAULT
    /\ got_response
    /\ rt_ms = <<0>>
    /\ now_ms >= CFG_SOA_MS

\* C18 as stated: every completed trial has requested fixation_onset exactly
\* once, for every SOA >= 1.
C18_FixationOnceAlways ==
    TrialDone => CountOf(TrialEvents, "fixation_onset") = 1

\* C18 amended: fixation_onset is requested at most once per trial: at the
\* first poll of the trial whose clock reading is at or above the stimulus
\* duration, when there is such a poll below SOA, and at no other step; it
\* is never requested when SOA <= stimulus duration.
C18_FixationOnceIfPolled ==
    [][/\ PollStep =>
              CountOf(TrialEvents', "fixation_onset")
                  = CountOf(TrialEvents, "fixation_onset")
                      + (IF now_ms >= STIM_DUR_MS /\ shown = "stimulus" THEN 1 ELSE 0)
       /\ ~PollStep => CountOf(sent', "fixation_onset") = CountOf(sent, "fixation_onset")
       /\ CountOf(TrialEvents', "fixation_onset") <= 1
       /\ CFG_SOA_MS <= STIM_DUR_MS => CountOf(sent', "fixation_onset") = 0]_vars

\* a completed trial at the default SOA, with fixation drawn at several
\* polls and fixation_onset requested once
C18_Witness ==
    /\ TrialDone
    /\ CFG_SOA_MS = SOA_MS_DEFAULT
    /\ shown = "fixation"
    /\ fixation_mark_sent
    /\ CountOf(TrialEvents, "fixation_onset") = 1

\* C19 as stated: within a trial the response event is never requested
\* after the fixation_onset event.
C19_ResponseBeforeFixation ==
    \A p, q \in 1..Len(TrialEvents) :
        (p < q /\ TrialEvents[p] = "fixation_onset")
            => TrialEvents[q] # ResponseEvent(cfg.n_back)

\* the events of a trial without a trailing block-end event
TrialBody(e, n_back) ==
    IF e # <<>> /\ Last(e) = BlockEndEvent(n_back)
    THEN SubSeq(e, 1, Len(e) - 1) ELSE e

\* C19 amended: a trial's events are the stimulus-presentation event first,
\* then at most one response event and at most one fixation_onset in the
\* order of the polls that requested them (the response event first when one
\* poll requests both, so a response latched at a later poll than the first
\* fixation poll comes after fixation_onset); all are requested inside the
\* trial's polling loop, before the next trial's onset or the block end.
C19_EventOrder ==
    [][LET S == "stim_presentation"
           F == "fixation_onset"
           R == ResponseEvent(cfg.n_back)
       IN  /\ TrialBody(TrialEvents', cfg.n_back)
                  \in {<<>>, <<S>>, <<S, R>>, <<S, F>>, <<S, R, F>>, <<S, F, R>>}
           /\ (/\ PollStep
               /\ ~got_response /\ got_response'
               /\ ~fixation_mark_sent /\ fixation_mark_sent')
                  => sent' = sent \o <<R, F>>
           /\ (sent' # sent /\ ~PollStep) =>
                  \/ b_pc = "start" /\ sent' = Append(sent, BlockStartEvent(cfg.n_back))
                  \/ b_pc = "flip" /\ sent' = Append(sent, S)
                  \/ b_pc = "end" /\ sent' = Append(sent, BlockEndEvent(cfg.n_back))]_vars

\* a completed trial whose response event follows its fixation_onset event
C19_Witness ==
    /\ TrialDone
    /\ TrialEvents = <<"stim_presentation", "fixation_onset",
                        ResponseEvent(cfg.n_back)>>

\* C20: at every poll, on both backends, a quit-key press made during the
\* trial in progress that is among the key events available to the poll (in
\* the buffer the poll reads) aborts the block at that poll: no poll with
\* such a press available goes on to the next pass.
C20_QuitNeverIgnored ==
    [][PollStep =>
          \A k \in 1..Len(keybuf) :
              keybuf[k].name = KEY_QUIT => keybuf[k].t < 0]_vars

\* a step of run_block in which a call of send_named raised
RaiseStep == raised_sites' # {} /\ presses' = presses

\* C21: when send_named raises at any of its call sites in run_block (block
\* start, stimulus presentation, response, fixation onset, block end) the
\* block is not aborted and the step does what it does without the raise:
\* the trial loop is entered, the polling loop is entered with fresh locals,
\* the response is latched, the fixation mark is set and the clock moves on,
\* the block returns its accuracy and mean RT; fixation onset is still
\* requested at most once per trial, and a returned block has scored and
\* recorded every plan.
C21_EmitterFailureSwallowed ==
    [][/\ RaiseStep =>
              /\ b_pc' # "raised"
              /\ UNCHANGED <<correct_count, accs_out, rts_out, rows_out, t_idx>>
              /\ b_pc = "start" =>
                     b_pc' = IF plans # <<>> THEN "onset" ELSE "end"
              /\ b_pc = "flip" =>
                     /\ b_pc' = "poll"
                     /\ now_ms' = 0
                     /\ ~got_response' /\ resp_key' = "" /\ rt_ms' = <<>>
                     /\ ~fixation_mark_sent'
              /\ b_pc = "poll" =>
                     /\ b_pc' = "poll"
                     /\ now_ms' > now_ms
                     /\ fixation_mark_sent' = (now_ms >= STIM_DUR_MS)
                     /\ got_response' = (got_response \/ keybuf # <<>>)
                     /\ IF ~got_response /\ keybuf # <<>>
                        THEN /\ resp_key' = keybuf[1].name
                             /\ rt_ms' = <<keybuf[1].t>>
                        ELSE /\ UNCHANGED <<got_response, resp_key, rt_ms>>
                             /\ ResponseEvent(cfg.n_back) \notin raised_sites'
              /\ b_pc = "end" =>
                     /\ b_pc' = "returned"
                     /\ block_ret' = [acc |-> Accuracy(CountOf(accs_out, 1), Len(plans)),
                                      mean_rt |-> MeanRt(rts_out)]
       /\ CountOf(TrialEvents', "fixation_onset") <= 1
       /\ b_pc' = "returned" =>
              /\ Len(accs_out') = Len(plans)
              /\ t_idx' = Len(plans)
              /\ (~is_practice => Len(rows_out') = Len(plans))]_vars

\* a block returned although the block-end call raised, after a trial in
\* which a response was latched and fixation onset requested
C21_Witness ==
    /\ b_pc = "returned"
    /\ raised_sites = {BlockEndEvent(cfg.n_back)}
    /\ got_response
    /\ fixation_mark_sent
    /\ Len(rows_out) = Len(plans)
    /\ Len(plans) = MaxBlockTrials

\* a poll at which both the response call and the fixation-onset call raised
C21_WitnessBothRaised ==
    /\ b_pc = "poll"
    /\ raised_sites = {ResponseEvent(cfg.n_back), "fixation_onset"}
    /\ got_response
    /\ fixation_mark_sent

\* the recorded trials that were scored correct and had a response
HitRows == SelectSeq(rows_out, LAMBDA r : r.correct = 1 /\ r.response_key # "")

\* C22: run_block returns accuracy = (trials of the block scored correct) /
\* (number of plans), 0 for an empty plan list, and mean RT = the sum of the
\* reaction times of the block's trials that were correct and responded over
\* their number, None when there is none.
C22_ReturnValues ==
    b_pc = "returned" =>
        /\ block_ret.acc =
               IF plans = <<>> THEN <<0, 1>>
               ELSE <<Len(SelectSeq(rows_out, LAMBDA r : r.correct = 1)), Len(plans)>>
        /\ block_ret.mean_rt =
               IF HitRows = <<>> THEN <<>>
               ELSE <<SumSeq([k \in 1..Len(HitRows) |-> HitRows[k].rt_ms[1]]),
                      Len(HitRows)>>

\* a block returned with two hits at different reaction times, a correct
\* rejection, and so a mean over two of its three trials
C22_Witness ==
    /\ b_pc = "returned"
    /\ Len(rows_out) = MaxBlockTrials + 1
    /\ Len(HitRows) = 2
    /\ HitRows[1].rt_ms # HitRows[2].rt_ms
    /\ block_ret.acc = <<3, MaxBlockTrials + 1>>
    /\ block_ret.mean_rt = <<HitRows[1].rt_ms[1] + HitRows[2].rt_ms[1], 2>>

\* a block returned with a false alarm and no hit: responses but no mean RT
C22_WitnessNone ==
    /\ b_pc = "returned"
    /\ \E k \in 1..Len(rows_out) : rows_out[k].response_key # ""
    /\ block_ret.mean_rt = <<>>

\* ------------------------------------------------------- properties of main
\* the session has been ended by the quit key
Aborted == m_pc = "quit"

\* C23: when the quit key aborts the session before the final save prompt
\* (at an instruction or break screen or inside a block), graceful_quit
\* writes none of the buffered rows, and afterwards no CSV file and no
\* metadata file of the session remains; the abort flag stays set.
C23_AbortLeavesNoFile ==
    Aborted =>
        /\ ABORT_WITHOUT_SAVE
        /\ ~csv_exists
        /\ ~meta_exists
        /\ csv_rows = <<>>

\* the session ran to its end
Finished == m_pc = "finished"

\* the blocks of the rows in the CSV file
RowBlocks == {csv_rows[j].block_idx : j \in 1..Len(csv_rows)}

\* C24: for blocks_per_load = k >= 1 a session that runs to its end has run
\* exactly 2k blocks numbered 1..2k in this order; blocks 1..k use the first
\* load and blocks k+1..2k the second, the loads being 1 then 3 for version
\* A and 3 then 1 for version B; the load changes once, after block k; and
\* every recorded row carries the n_back of its block.
C24_TwoLoadsInOrder ==
    LET k == IF blocks_arg >= 1 THEN blocks_arg ELSE 1
        first == IF version = "A" THEN 1 ELSE 3
        second == IF version = "A" THEN 3 ELSE 1
    IN  /\ \A j \in 1..Len(block_log) :
               /\ j <= 2 * k
               /\ block_log[j].block_idx = j
               /\ block_log[j].n_back = IF j <= k THEN first ELSE second
        /\ \A j \in 1..Len(csv_rows) :
               /\ csv_rows[j].block_idx \in 1..Len(block_log)
               /\ csv_rows[j].n_back = block_log[csv_rows[j].block_idx].n_back
        /\ \A j \in 1..Len(rows_out) :
               /\ rows_out[j].block_idx = Len(block_log)
               /\ rows_out[j].n_back = block_log[Len(block_log)].n_back
        /\ Finished =>
               /\ Len(block_log) = 2 * k
               /\ {j \in 1..(Len(block_log) - 1) :
                       block_log[j].n_back # block_log[j + 1].n_back} = {k}
               /\ Len(csv_rows) = 2 * k * trials_per_block
               /\ (trials_per_block > 0 => RowBlocks = 1..(2 * k))

\* a finished session of version B with two blocks per load and rows of
\* every block in the file
C24_Witness ==
    /\ Finished
    /\ version = "B"
    /\ blocks_arg = 2
    /\ Len(block_log) = 4
    /\ RowBlocks = 1..4
    /\ csv_rows[1].n_back = 3
    /\ csv_rows[Len(csv_rows)].n_back = 1

\* ------------------------------------------ validate_sequence called on its own
\* the lengths of the three lists passed in
ValidateLengths == 0..3

ValidateNBackValues == {1, 2}

ValidateRateValues == {TARGET_RATE, 75}

ToleranceValues == {0, 1}

LureTypeValues == {"none", "n-1", "n+1"}

\* the keyword arguments of a call of validate_sequence but tolerance
ValidateArguments ==
    [n_back : ValidateNBackValues,
     target_rate : ValidateRateValues,
     max_consec_targets : MaxConsecValues]

\* a call of validate_sequence on any three lists of one length
InitValidate ==
    /\ soa_arg = SOA_MS_DEFAULT
    /\ BlockIdle
    /\ MainIdle
    /\ cfg \in ValidateArguments
    /\ tolerance_arg \in ToleranceValues
    /\ \E n \in ValidateLengths :
         /\ seq \in [1..n -> LETTERS]
         /\ is_target_flags \in [1..n -> {0, 1}]
         /\ lure_types \in [1..n -> LureTypeValues]
    /\ verdict = <<>>
    /\ pc = "validate"
    /\ attempt = 0
    /\ sample_try = 0
    /\ target_indices = <<>>
    /\ i = 0
    /\ freqs = ZeroFreqs
    /\ target_flags = <<>>
    /\ attempts = 0
    /\ plans = <<>>
    /\ path = "none"
    /\ raised = FALSE

\* the body of validate_sequence: it reads its arguments and returns a pair
ValidateCall ==
    /\ pc = "validate"
    /\ LET reason == validate_sequence(seq, is_target_flags, lure_types, cfg.n_back,
                                       cfg.target_rate, tolerance_arg,
                                       cfg.max_consec_targets)
       IN  verdict' = <<reason = "ok", reason>>
    /\ pc' = "validated"
    /\ UNCHANGED <<cfg, attempt, sample_try, target_indices, i, seq, is_target_flags,
                   lure_types, freqs, target_flags, attempts, plans, path, raised,
                   tolerance_arg>>
    /\ UNCHANGED <<block_vars, main_vars>>

ValidateSpec == InitValidate /\ [][ValidateCall]_vars

\* ---- the six rules, each stated on the lists as a whole (1-based positions)
NoEarlyTarget == \A k \in 1..Len(is_target_flags) :
                     k <= cfg.n_back => is_target_flags[k] = 0

TargetCountNearDesired ==
    LET count == Cardinality({k \in 1..Len(is_target_flags) : is_target_flags[k] = 1})
        goal == PyRound(cfg.target_rate * Len(seq), 100)
    IN  count \in (goal - 1)..(goal + 1)

NoPlainRepeat ==
    cfg.n_back > 1 =>
        \A k \in 2..Len(seq) :
            seq[k] = seq[k - 1] => is_target_flags[k] = 1 \/ lure_types[k] # "none"

\* the lure at position k copies the letter d back, is no target, and differs
\* from the N-back letter when there is one
ValidLure(k, d) ==
    /\ d > 0
    /\ k - d >= 1
    /\ is_target_flags[k] = 0
    /\ seq[k] = seq[k - d]
    /\ k - cfg.n_back >= 1 => seq[k] # seq[k - cfg.n_back]

NMinus1LuresValid == \A k \in 1..Len(seq) :
                         lure_types[k] = "n-1" => ValidLure(k, cfg.n_back - 1)

NPlus1LuresValid == \A k \in 1..Len(seq) :
                        lure_types[k] = "n+1" => ValidLure(k, cfg.n_back + 1)

NoLongTargetRun ==
    ~\E a \in 1..Len(is_target_flags) :
        \A k \in a..(a + cfg.max_consec_targets) :
            k <= Len(is_target_flags) /\ is_target_flags[k] = 1

SixRules ==
    /\ NoEarlyTarget
    /\ TargetCountNearDesired
    /\ NoPlainRepeat
    /\ NMinus1LuresValid
    /\ NPlus1LuresValid
    /\ NoLongTargetRun

\* C25: validate_sequence returns ok = True exactly when the six rules hold of
\* its input, whatever the tolerance argument is, and leaves its input lists
\* as they were
C25_OkIffSixRules ==
    [][pc = "validate" =>
          /\ verdict'[1] = SixRules
          /\ UNCHANGED <<seq, is_target_flags, lure_types, cfg, tolerance_arg>>]_vars

\* a call with a valid lure of each kind is accepted under either tolerance
C25_Witness ==
    /\ pc = "validated"
    /\ verdict[1]
    /\ tolerance_arg = 0
    /\ \E k \in 1..Len(seq) : lure_types[k] = "n+1"
    /\ \E k \in 1..Len(seq) : is_target_flags[k] = 1

\* a call rejected for its lures alone
C25_WitnessRejected ==
    /\ pc = "validated"
    /\ ~verdict[1]
    /\ NoEarlyTarget /\ TargetCountNearDesired /\ NoPlainRepeat /\ NoLongTargetRun
    /\ NMinus1LuresValid
    /\ ~NPlus1LuresValid

\* the numbers of the rules that are violated
ViolatedRules ==
    {r \in 1..6 :
        \/ r = 1 /\ ~NoEarlyTarget
        \/ r = 2 /\ ~TargetCountNearDesired
        \/ r = 3 /\ ~NoPlainRepeat
        \/ r = 4 /\ ~NMinus1LuresValid
        \/ r = 5 /\ ~NPlus1LuresValid
        \/ r = 6 /\ ~NoLongTargetRun}

\* the rules a reason can belong to ("lure double-counted as target" is the
\* reason of both lure rules)
ReasonRules(reason) ==
    IF reason = "Target in first N trials" THEN {1}
    ELSE IF reason = "Target count outside +-1" THEN {2}
    ELSE IF reason = "Immediate repeat without target/lure" THEN {3}
    ELSE IF reason \in {"n-1 lure too early", "n-1 lure mismatch",
                        "n-1 lure equals target"} THEN {4}
    ELSE IF reason \in {"n+1 lure too early", "n+1 lure mismatch",
                        "n+1 lure equals target"} THEN {5}
    ELSE IF reason = "lure double-counted as target" THEN {4, 5}
    ELSE IF reason = "too many consecutive targets" THEN {6}
    ELSE {}

\* C26: a rejected input is rejected with the reason of its lowest-numbered
\* violated rule, so an n-1 lure violation is reported in preference to an
\* n+1 lure violation wherever the two lures are
C26_LowestRuleReported ==
    pc = "validated" /\ ~verdict[1] =>
        \E r \in ViolatedRules :
            /\ \A q \in ViolatedRules : r <= q
            /\ r \in ReasonRules(verdict[2])

\* the same with rules 4 and 5 taken as one rule, the lure rule
C26_LowestRuleUpToLures ==
    pc = "validated" /\ ~verdict[1] =>
        \E r \in ViolatedRules :
            /\ \A q \in ViolatedRules : r <= q
            /\ \/ r \in ReasonRules(verdict[2])
               \/ r = 4 /\ 5 \in ViolatedRules /\ 5 \in ReasonRules(verdict[2])

\* ------------------------------------------- calls with two primary attempts
RetryConfigs == {c \in Arguments : c.max_attempts = 2}

InitRetry ==
    /\ soa_arg = SOA_MS_DEFAULT
    /\ BlockIdle
    /\ MainIdle
    /\ GenStart
    /\ cfg \in RetryConfigs

RetrySpec == InitRetry /\ [][Next]_vars

\* how often each letter occurs in seq
LetterCounts ==
    [c \in LETTERS |-> Cardinality({k \in 1..Len(seq) : seq[k] = c})]

\* the lists of the attempt in progress, packaged trial by trial
AttemptPlans ==
    [k \in 1..Len(seq) |->
        [stimulus |-> seq[k], is_target |-> is_target_flags[k],
         lure_type |-> lure_types[k], iti_ms |-> cfg.fixed_iti_ms]]

\* C27: what a primary attempt returns satisfies the six rules under the
\* call's n_back, target_rate and max_consec_targets and is the lists of that
\* attempt alone; an attempt that failed (validation failed or the sampling
\* returned None) has returned nothing, and the next attempt starts from empty
\* lists and zero letter counts
C27_PrimaryReturnValid ==
    [][/\ path' = "primary" =>
             /\ SixRules'
             /\ Len(seq') = cfg.n_trials
             /\ plans' = AttemptPlans'
       /\ pc = "loop" => plans = <<>> /\ path = "none"
       /\ pc = "loop" /\ pc' = "sample" =>
             /\ attempt' = attempt + 1
             /\ seq' = <<>>
             /\ is_target_flags' = <<>>
             /\ lure_types' = <<>>
             /\ freqs' = ZeroFreqs
       /\ pc' \in {"sample", "fill"} =>
             /\ freqs' = LetterCounts'
             /\ Len(is_target_flags') = Len(seq')
             /\ Len(lure_types') = Len(seq')]_vars

\* the second attempt returned after the first one was discarded
C27_Witness ==
    /\ path = "primary"
    /\ attempt = 2
    /\ plans # <<>>

\* an attempt discarded because its sequence failed validation
C27_WitnessFailed ==
    /\ pc = "loop"
    /\ attempt = 1
    /\ Len(seq) = cfg.n_trials
    /\ cfg.n_trials > 0
    /\ ~SixRules

\* C28: the fallback is entered only from the loop head after max_attempts
\* attempts, each of which ended because the sampling gave up or the filled
\* sequence broke a rule; an attempt whose sequence satisfies the rules
\* returns at once, and nothing runs after a return
C28_FallbackOnlyAfterAllAttempts ==
    [][/\ pc' \in {"fb_place", "fb_fill"} /\ pc \notin {"fb_place", "fb_fill"} =>
             /\ pc = "loop"
             /\ attempt = cfg.max_attempts
             /\ path = "none"
       /\ path' = "fallback" => attempt' = cfg.max_attempts
       /\ pc \in {"sample", "fill"} /\ pc' = "loop" =>
             \/ pc = "sample" /\ sample_try >= SAMPLE_ATTEMPTS
             \/ pc = "fill" /\ Len(seq) = cfg.n_trials /\ ~SixRules
       /\ pc = "fill" /\ Len(seq) = cfg.n_trials /\ SixRules =>
             /\ pc' = "done"
             /\ path' = "primary"
             /\ attempt' = attempt
             /\ attempt \in 1..cfg.max_attempts
       /\ pc # "done"]_vars

\* a fallback-built sequence returned after two failed attempts
C28_Witness ==
    /\ pc = "done"
    /\ path = "fallback"
    /\ attempt = 2
    /\ cfg.n_trials > 0

\* the first attempt returned
C28_WitnessFirst ==
    /\ pc = "done"
    /\ path = "primary"
    /\ attempt = 1
    /\ cfg.max_attempts = 2
    /\ cfg.n_trials > 0

\* C29: a sequence returned by the fallback has no lure, its targets are at
\* index n_back or later and repeat the letter n_back trials back, and each
\* of its non-targets differs from the letter before it and from the letter
\* n_back trials back (positions are 1-based here)
C29_FallbackStructurallyValid ==
    path = "fallback" =>
        /\ Len(plans) = cfg.n_trials
        /\ \A k \in 1..Len(plans) :
             /\ plans[k].lure_type = "none"
             /\ plans[k].is_target = 1 =>
                    /\ k - 1 >= cfg.n_back
                    /\ plans[k].stimulus = plans[k - cfg.n_back].stimulus
             /\ plans[k].is_target # 1 =>
                    /\ plans[k].is_target = 0
                    /\ k > 1 => plans[k].stimulus # plans[k - 1].stimulus
                    /\ k - 1 >= cfg.n_back =>
                           plans[k].stimulus # plans[k - cfg.n_back].stimulus

\* a fallback sequence of full length with a target and a non-target that
\* has both a predecessor and an N-back letter
C29_Witness ==
    /\ path = "fallback"
    /\ cfg.n_trials = MaxTrials
    /\ \E k \in 1..Len(plans) : plans[k].is_target = 1
    /\ \E k \in 1..Len(plans) : plans[k].is_target = 0 /\ k - 1 >= cfg.n_back

\* _sample_target_indices has returned a list to the attempt in progress
SampleReturned == pc = "fill" /\ i = 0

\* the returned list is increasing, of the desired length and within
\* range(n_back, n_trials)
SampleShape ==
    /\ Len(target_indices) = Max(0, desired_targets(cfg))
    /\ \A k \in 1..Len(target_indices) :
         /\ target_indices[k] \in cfg.n_back..(cfg.n_trials - 1)
         /\ k > 1 => target_indices[k - 1] < target_indices[k]

\* no max_consec_targets + 1 consecutive indices are all in the list
NoLongIndexRun ==
    ~\E a \in target_set :
        \A d \in 0..cfg.max_consec_targets : a + d \in target_set

\* C30: a list returned by _sample_target_indices is sorted, has exactly the
\* desired number of distinct indices, all in [n_back, n_trials), and has no
\* run of more than max_consec_targets consecutive indices, whatever the
\* order of the shuffle was
C30_SampledIndicesValid ==
    SampleReturned => SampleShape /\ NoLongIndexRun

\* the same without the bound on runs
C30_SampledIndicesShape ==
    SampleReturned => SampleShape

\* what the scan of the shuffled positions has chosen before it looks at
\* the p-th of them
ChosenBefore(positions, p) ==
    SampleChoose(SubSeq(positions, 1, p - 1), 1, <<>>, desired_targets(cfg),
                 cfg.max_consec_targets)

C31_WitnessSampled ==
    /\ SampleReturned
    /\ cfg.n_back > 1
    /\ \E a \in target_set : (a - cfg.n_back) \in target_set

\* round(target_rate * n_trials) of the call
RoundedTargets == PyRound(cfg.target_rate * cfg.n_trials, 100)

\* the number of plans flagged as target
FlaggedTargets == Cardinality({k \in 1..Len(plans) : plans[k].is_target = 1})

\* C32: a sequence returned from a primary attempt has exactly
\* round(target_rate * n_trials) targets, and no returned sequence, primary or
\* fallback, has more
C32_TargetCountAtMostDesired ==
    Returned =>
        /\ path = "primary" => FlaggedTargets = RoundedTargets
        /\ FlaggedTargets <= RoundedTargets

\* a primary return with two targets or more
C32_Witness ==
    /\ Returned
    /\ path = "primary"
    /\ FlaggedTargets >= 2

\* a fallback return that reaches the desired count of two or more
C32_WitnessFallback ==
    /\ Returned
    /\ path = "fallback"
    /\ FlaggedTargets = RoundedTargets
    /\ FlaggedTargets >= 2

\* s has no max_run + 1 consecutive equal elements
RunsWithin(s, max_run) ==
    ~\E a \in 1..Len(s) :
        \A d \in 0..max_run : a + d <= Len(s) /\ s[a + d] = s[a]

PlanLetters == [k \in 1..Len(plans) |-> plans[k].stimulus]

C33_WitnessAtCap ==
    /\ Returned
    /\ path = "primary"
    /\ cfg.max_identical_run = MAX_IDENTICAL_RUN
    /\ \E k \in 2..Len(plans) : plans[k].stimulus = plans[k - 1].stimulus

\* the response events, of either load, among the events e
ResponseCount(e) == CountOf(e, "response_ll") + CountOf(e, "response_hl")

\* C34: a response event is requested at the step that latches a response and
\* at no other, so a scored trial has requested one if a response was
\* latched and none otherwise: response_ll when n_back = 1 and response_hl
\* otherwise; the record of the trial has its response key, reaction time and
\* response code (50 when n_back = 1, 51 otherwise) present when a response
\* was latched and all three empty when none was
C34_ResponseEventIffLatched ==
    [][/\ ResponseCount(sent') # ResponseCount(sent) =>
             /\ b_pc = "poll"
             /\ ~got_response /\ got_response'
             /\ ResponseCount(sent') = ResponseCount(sent) + 1
       /\ ScoreStep =>
             /\ ResponseCount(TrialEvents) = IF got_response THEN 1 ELSE 0
             /\ got_response =>
                    CountOf(TrialEvents, IF cfg.n_back = 1 THEN "response_ll"
                                         ELSE "response_hl") = 1
             /\ ~is_practice =>
                    LET r == Last(rows_out')
                    IN  /\ Len(rows_out') = Len(rows_out) + 1
                        /\ got_response =>
                               /\ r.response_key # ""
                               /\ r.rt_ms # <<>>
                               /\ r.marker_code_resp
                                      = <<IF cfg.n_back = 1 THEN 50 ELSE 51>>
                        /\ ~got_response =>
                               /\ r.response_key = ""
                               /\ r.rt_ms = <<>>
                               /\ r.marker_code_resp = <<>>]_vars

\* a scored low-load trial with a latched response and its record
C34_Witness ==
    /\ TrialDone
    /\ cfg.n_back = 1
    /\ got_response
    /\ rows_out # <<>>
    /\ Last(rows_out).marker_code_resp = <<50>>
    /\ CountOf(TrialEvents, "response_ll") = 1

\* a scored trial without a response
C34_WitnessNone ==
    /\ TrialDone
    /\ ~got_response
    /\ rows_out # <<>>
    /\ Last(rows_out).response_key = ""
    /\ presses > 0

\* the block-start and block-end events of the block's load
StartName == IF cfg.n_back = 1 THEN "block_ll_start" ELSE "block_hl_start"

EndName == IF cfg.n_back = 1 THEN "block_ll_end" ELSE "block_hl_end"

\* the block events, of either load and either end, among the events e
BlockEventCount(e) ==
    CountOf(e, "block_ll_start") + CountOf(e, "block_hl_start")
        + CountOf(e, "block_ll_end") + CountOf(e, "block_hl_end")

\* C35: the first event requested is the block-start event of the load; the
\* k-th stimulus-presentation event is requested at the onset of trial k,
\* before any response or fixation event of that trial; the block-end event
\* of the load is requested after the last trial, so a block that returns has
\* requested one start event first, one stimulus event per plan and one end
\* event last, and a block aborted by quit has requested no end event
C35_BlockEventFrame ==
    [][/\ sent' # sent =>
             \/ /\ b_pc = "start"
                /\ sent = <<>>
                /\ sent' = <<StartName>>
             \/ /\ b_pc = "flip"
                /\ sent' = Append(sent, "stim_presentation")
                /\ CountOf(sent', "stim_presentation") = t_idx
             \/ /\ b_pc = "poll"
                /\ CountOf(sent, "stim_presentation") = t_idx
                /\ CountOf(sent', "stim_presentation") = t_idx
                /\ BlockEventCount(sent') = 1
             \/ /\ b_pc = "end"
                /\ t_idx = Len(plans)
                /\ BlockEventCount(sent) = 1
                /\ sent' = Append(sent, EndName)
       /\ b_pc' = "returned" =>
             /\ sent'[1] = StartName
             /\ Last(sent') = EndName
             /\ BlockEventCount(sent') = 2
             /\ CountOf(sent', "stim_presentation") = Len(plans)
       /\ b_pc' = "quit" =>
             /\ sent'[1] = StartName
             /\ BlockEventCount(sent') = 1]_vars

\* a low-load block of full length that returned
C35_Witness ==
    /\ b_pc = "returned"
    /\ cfg.n_back = 1
    /\ Len(plans) = MaxBlockTrials
    /\ Last(sent) = "block_ll_end"

\* a block aborted by quit in its second trial
C35_WitnessQuit ==
    /\ b_pc = "quit"
    /\ t_idx = 2
    /\ CountOf(sent, "stim_presentation") = 2

\* C36: the press latched as a trial's response was made at or after the
\* trial's stimulus-onset flip and before SOA elapsed, so the reaction time,
\* measured from that onset, lies in [0, SOA); a press made before the onset
\* flip (times below zero on the trial's clock) is never latched, on either
\* backend
C36_LatchWithinTrial ==
    got_response =>
        /\ rt_ms # <<>>
        /\ rt_ms[1] >= 0
        /\ rt_ms[1] < CFG_SOA_MS

\* the upper half alone: a latched press was made before SOA elapsed
C36_LatchBelowSoa ==
    got_response => rt_ms # <<>> /\ rt_ms[1] < CFG_SOA_MS

\* the hardware keyboard has latched a press made before the onset flip
C36_HwLatchedEarlyPress ==
    hw_kb /\ got_response /\ rt_ms # <<>> /\ rt_ms[1] < 0

\* the positions of main from the first phase instructions on
MainPhasePositions ==
    {"phase", "next_block", "main_block", "break", "save_prompt", "finished"}

\* the positions of main inside the practice loop
PracticePositions == {"practice", "practice_block", "headsup_again"}

\* the practice block that has returned reached the pass criterion
PracticeBlockPassed ==
    /\ m_pc = "practice_block"
    /\ b_pc = "returned"
    /\ is_practice
    /\ accs_out # <<>>
    /\ 100 * SumSeq(accs_out) >= PRACTICE_PASS_ACC * Len(accs_out)

\* the block that runs as practice is a 2-back block on plans without lures,
\* no block of the main task runs as practice, and nothing of the practice
\* loop is in the row buffer or in the data file
PracticeShape ==
    /\ m_pc = "practice_block" =>
          /\ is_practice
          /\ ~no_practice
          /\ cfg.n_back = 2
          /\ ~cfg.include_lures
          /\ cfg.lure_n_minus_1_rate = 0
          /\ cfg.lure_n_plus_1_rate = 0
          /\ \A k \in 1..Len(plans) : plans[k].lure_type = "none"
    /\ m_pc = "main_block" => ~is_practice /\ cfg.n_back \in {1, 3}
    /\ m_pc \in PracticePositions => rows_out = <<>> /\ csv_rows = <<>>

\* C37: with practice enabled the phase instructions of the main task are
\* entered only from a practice block that returned with accuracy >= 0.75;
\* every practice block is a 2-back block without lures that leaves the row
\* buffer and the data file alone; unless the session is quit, a practice
\* block below the criterion is followed by the practice heads-up screen,
\* and that screen by another practice block
C37_PracticeGatesMainTask ==
    [][/\ PracticeShape
       /\ PracticeShape'
       /\ (~no_practice /\ m_pc \notin MainPhasePositions
             /\ m_pc' \in MainPhasePositions) =>
             /\ PracticeBlockPassed
             /\ m_pc' = "phase"
             /\ phase_idx' = 0
       /\ (m_pc \in PracticePositions \/ m_pc' \in PracticePositions) =>
             /\ csv_rows' = csv_rows
             /\ rows_out' = rows_out
       /\ (m_pc = "practice_block" /\ m_pc' # m_pc) =>
             \/ m_pc' = "quit"
             \/ /\ b_pc = "returned"
                /\ m_pc' = IF PracticeBlockPassed THEN "phase" ELSE "headsup_again"
       /\ (m_pc = "headsup_again" /\ m_pc' # m_pc) => m_pc' \in {"practice", "quit"}
       /\ (m_pc = "practice" /\ m_pc' # m_pc) =>
             /\ m_pc' = "practice_block"
             /\ b_pc' = "start"
             /\ is_practice']_vars

\* the first main block runs in a session with practice
C37_Witness ==
    /\ ~no_practice
    /\ m_pc = "main_block"
    /\ block_counter = 1
    /\ ~is_practice

\* a practice block has failed and the heads-up screen is shown again
C37_WitnessFailed ==
    /\ m_pc = "headsup_again"
    /\ accs_out # <<>>
    /\ 100 * SumSeq(accs_out) < PRACTICE_PASS_ACC * Len(accs_out)

\* block_idx, trial_idx and n_back of the records in rows
RowKeys(rows) ==
    [j \in 1..Len(rows) |-> <<rows[j].block_idx, rows[j].trial_idx, rows[j].n_back>>]

\* the j-th record of a session in block order and trial order: blocks of
\* trials_per_block trials each, the load of a block from the load order
OrderedKey(j) ==
    LET b == ((j - 1) \div trials_per_block) + 1
    IN  <<b, ((j - 1) % trials_per_block) + 1,
          load_order[((b - 1) \div blocks_per_load) + 1]>>

\* rows holds the first Len(rows) records of the session, each once
InSessionOrder(rows) ==
    \A j \in 1..Len(rows) : RowKeys(rows)[j] = OrderedKey(j)

\* C38: in a session that is not aborted the records written to the CSV,
\* followed by those in the row buffer, are the records of the main blocks
\* in block order and trial order (trial_idx 1..n in each block), each once;
\* run_block adds one record per plan; the rows of a block are written and
\* the buffer is emptied before the next block starts, the final flush adds
\* nothing, and the finished session has every record of every block
C38_EveryRecordOnceInOrder ==
    [][m_pc' # "quit" =>
          /\ InSessionOrder(csv_rows' \o rows_out')
          /\ rows_out' # <<>> => m_pc' = "main_block"
          /\ (rows_out' # rows_out /\ m_pc' = m_pc) =>
                /\ b_pc = "poll"
                /\ rows_out' = Append(rows_out, Last(rows_out'))
                /\ Last(rows_out').trial_idx = t_idx
                /\ Last(rows_out').block_idx = block_counter
                /\ Last(rows_out').stimulus = plans[t_idx].stimulus
                /\ Len(rows_out') = t_idx
                /\ csv_rows' = csv_rows
          /\ (m_pc # "main_block" /\ m_pc' = "main_block") =>
                /\ rows_out = <<>>
                /\ rows_out' = <<>>
                /\ Len(csv_rows) = block_counter * trials_per_block
          /\ (m_pc = "main_block" /\ m_pc' # "main_block") =>
                /\ b_pc = "returned"
                /\ Len(rows_out) = Len(plans)
                /\ Len(plans) = trials_per_block
                /\ csv_rows' = csv_rows \o rows_out
                /\ rows_out' = <<>>
          /\ (m_pc # "main_block" /\ m_pc' # "main_block") => csv_rows' = csv_rows
          /\ m_pc' = "finished" =>
                /\ Len(csv_rows') = total_blocks * trials_per_block
                /\ \A b \in 1..total_blocks : \A t \in 1..trials_per_block :
                      Cardinality({j \in 1..Len(csv_rows') :
                                      /\ csv_rows'[j].block_idx = b
                                      /\ csv_rows'[j].trial_idx = t}) = 1]_vars

\* a session of four blocks of two trials each has finished
C38_Witness ==
    /\ Finished
    /\ blocks_per_load = 2
    /\ trials_per_block = 2
    /\ Len(csv_rows) = 8

\* the second block of a session is about to write its rows after the first
C38_WitnessSecondBlock ==
    /\ m_pc = "main_block"
    /\ b_pc = "returned"
    /\ block_counter = 2
    /\ Len(csv_rows) = 2
    /\ Len(rows_out) = 2

====
